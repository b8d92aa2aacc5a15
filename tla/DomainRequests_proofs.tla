------------------------ MODULE DomainRequests_proofs ------------------------
(***************************************************************************)
(* Proofs about DomainRequests: the requests of any number of callers use  *)
(* the gateway as ModelGateway lets them, so that what is proved there     *)
(* holds here, and a request's privacy is its calls'; a correlation keeps  *)
(* to its evidence budget as far as one piece for each task allows; and    *)
(* every step of a request takes it further.                               *)
(***************************************************************************)
EXTENDS DomainRequests, ModelGateway_proofs, Subsequences_proofs

-----------------------------------------------------------------------------
(* Lists of names.                                                          *)

LEMMA RangeIs ==
  ASSUME NEW S, NEW s \in Seq(S)
  PROVE  ToSet(s) = {s[i] : i \in 1..Len(s)} /\ ToSet(s) \subseteq S
BY LenProperties, ElementOfSeq DEF ToSet

\* A value that occurs has a first place.
LEMMA FirstPlace ==
  ASSUME NEW S, NEW s \in Seq(S), NEW v \in ToSet(s)
  PROVE  \E i \in DOMAIN s : s[i] = v /\ \A j \in 1..(i - 1) : s[j] # v
<1> DEFINE here == {i \in DOMAIN s : s[i] = v}
<1>1. IsFiniteSet(here) /\ Cardinality(here) \in Nat /\ here \subseteq Nat
  BY KeptFinite
<1>2. Cardinality(here) # 0
  <2>1. PICK i \in DOMAIN s : s[i] = v
    BY DEF ToSet
  <2>2. i \in here
    BY <2>1
  <2>3. here # {}
    BY <2>2
  <2> HIDE DEF here
  <2>4. QED
    BY <1>1, <2>3, FS_EmptySet
<1>3. PICK i \in here : Place(here, i) = 1
  <2>1. 1 \in 1..Cardinality(here)
    BY <1>1, <1>2
  <2>2. QED
    BY <1>1, <2>1, PlacesTaken
<1> DEFINE upto == {h \in here : h <= i}
<1>4. IsFiniteSet(upto)
  BY <1>1, FS_Subset
<1>5. PICK x : upto = {x}
  BY <1>3, <1>4, FS_Singleton DEF Place
<1>6. i \in upto
  BY <1>1
<1>7. ASSUME NEW j \in 1..(i - 1), s[j] = v PROVE FALSE
  <2>1. j \in DOMAIN s
    BY <1>1, LenProperties
  <2>2. j \in upto /\ j # i
    BY <1>1, <1>7, <2>1
  <2>3. QED
    BY <1>5, <1>6, <2>2
<1>8. QED
  BY <1>7

LEMMA DedupedIs ==
  ASSUME NEW S, NEW s \in Seq(S)
  PROVE  Deduped(s) \in Seq(S) /\ ToSet(Deduped(s)) = ToSet(s)
<1> DEFINE firsts == {i \in DOMAIN s : \A j \in 1..(i - 1) : s[j] # s[i]}
<1>1. firsts \in SUBSET (DOMAIN s) /\ Deduped(s) = Picked(s, firsts)
  BY DEF Deduped
<1>2. /\ Deduped(s) \in Seq(S)
      /\ \A k \in DOMAIN Deduped(s) : \E i \in firsts : Deduped(s)[k] = s[i]
      /\ \A i \in firsts : \E k \in DOMAIN Deduped(s) : Deduped(s)[k] = s[i]
  <2> HIDE DEF firsts
  <2>1. QED
    BY <1>1, PickedProperties
<1>3. ToSet(Deduped(s)) \subseteq ToSet(s)
  BY <1>2 DEF ToSet
<1>4. ASSUME NEW v \in ToSet(s) PROVE v \in ToSet(Deduped(s))
  <2>1. PICK i \in firsts : s[i] = v
    BY FirstPlace
  <2>2. QED
    BY <1>2, <2>1 DEF ToSet
<1>5. QED
  BY <1>2, <1>3, <1>4

\* No two entries of a list are the same.
Apart(s) == \A i, j \in DOMAIN s : s[i] = s[j] => i = j

LEMMA DedupedApart ==
  ASSUME NEW S, NEW s \in Seq(S)
  PROVE  Apart(Deduped(s))
<1> DEFINE firsts == {i \in DOMAIN s : \A j \in 1..(i - 1) : s[j] # s[i]}
<1>1. firsts \in SUBSET (DOMAIN s) /\ Deduped(s) = Picked(s, firsts)
  BY DEF Deduped
<1>2. DOMAIN s = 1..Len(s) /\ Len(s) \in Nat
  BY LenProperties
<1>3. ASSUME NEW i \in firsts, NEW j \in firsts, s[i] = s[j] PROVE i = j
  <2>1. ~(i \in 1..(j - 1)) /\ ~(j \in 1..(i - 1))
    BY <1>3
  <2>2. QED
    BY <1>2, <2>1
<1> HIDE DEF firsts
<1>4. QED
  BY <1>1, <1>3, PickedApart DEF Apart

\* A list that has all the entries of one without repetition is as long.
LEMMA ApartFits ==
  ASSUME NEW S, NEW s \in Seq(S), NEW t \in Seq(S), Apart(s), ToSet(s) \subseteq ToSet(t)
  PROVE  Len(s) <= Len(t)
<1> DEFINE f == [i \in 1..Len(s) |-> CHOOSE k \in 1..Len(t) : t[k] = s[i]]
<1>1. /\ Len(s) \in Nat /\ DOMAIN s = 1..Len(s)
      /\ Len(t) \in Nat /\ DOMAIN t = 1..Len(t)
  BY LenProperties
<1>2. \A i \in 1..Len(s) : f[i] \in 1..Len(t) /\ t[f[i]] = s[i]
  <2>1. \A i \in 1..Len(s) : \E k \in 1..Len(t) : t[k] = s[i]
    BY <1>1 DEF ToSet
  <2>2. QED
    BY <2>1
<1>3. f \in [1..Len(s) -> 1..Len(t)]
  BY <1>2
<1>4. \A i, j \in 1..Len(s) : f[i] = f[j] => i = j
  <2> HIDE DEF f
  <2>1. QED
    BY <1>1, <1>2 DEF Apart
<1>5. f \in Injection(1..Len(s), 1..Len(t))
  <2> HIDE DEF f
  <2>1. QED
    BY <1>3, <1>4 DEF Injection, IsInjective
<1>6. Cardinality(1..Len(s)) <= Cardinality(1..Len(t))
  <2> HIDE DEF f
  <2>1. IsFiniteSet(1..Len(t))
    BY <1>1, FS_Interval
  <2>2. QED
    BY <1>5, <2>1, FS_Injection
<1> HIDE DEF f
<1>7. \A n \in Nat : Cardinality(1..n) = n
  BY FS_Interval
<1>8. QED
  BY <1>1, <1>6, <1>7

LEMMA KnownIs ==
  ASSUME NEW S, NEW names \in Seq(S)
  PROVE  /\ Known(names) \in Seq(S)
         /\ \A n \in ToSet(Known(names)) : n \in DOMAIN Alias
<1> DEFINE known == {i \in DOMAIN names : names[i] \in DOMAIN Alias}
<1>1. known \in SUBSET (DOMAIN names) /\ Known(names) = Picked(names, known)
  BY DEF Known
<1>2. /\ Known(names) \in Seq(S)
      /\ \A k \in DOMAIN Known(names) : \E i \in known : Known(names)[k] = names[i]
  <2> HIDE DEF known
  <2>1. QED
    BY <1>1, PickedProperties
<1>3. QED
  BY <1>2 DEF ToSet

LEMMA ConcatRange ==
  ASSUME NEW S, NEW s \in Seq(S), NEW t \in Seq(S)
  PROVE  s \o t \in Seq(S) /\ ToSet(s \o t) = ToSet(s) \cup ToSet(t)
<1>1. /\ s \o t \in Seq(S) /\ Len(s \o t) = Len(s) + Len(t)
      /\ \A i \in 1..(Len(s) + Len(t)) :
           (s \o t)[i] = IF i <= Len(s) THEN s[i] ELSE t[i - Len(s)]
  BY ConcatProperties
<1>2. Len(s) \in Nat /\ Len(t) \in Nat
  BY LenProperties
<1> DEFINE n == Len(s) + Len(t)
<1>3. ToSet(s \o t) = {(s \o t)[i] : i \in 1..n}
  BY <1>1, RangeIs
<1>4. ToSet(s) = {s[i] : i \in 1..Len(s)} /\ ToSet(t) = {t[i] : i \in 1..Len(t)}
  BY RangeIs
<1>5. \A i \in 1..Len(s) : i \in 1..n /\ (s \o t)[i] = s[i]
  BY <1>1, <1>2
<1>6. \A i \in 1..Len(t) : i + Len(s) \in 1..n /\ (s \o t)[i + Len(s)] = t[i]
  BY <1>1, <1>2
<1>7. ToSet(s \o t) \subseteq ToSet(s) \cup ToSet(t)
  <2>1. ASSUME NEW i \in 1..n PROVE (s \o t)[i] \in ToSet(s) \cup ToSet(t)
    <3>1. CASE i <= Len(s)
      BY <1>1, <1>2, <1>4, <3>1
    <3>2. CASE ~(i <= Len(s))
      <4>1. i - Len(s) \in 1..Len(t) /\ (s \o t)[i] = t[i - Len(s)]
        BY <1>1, <1>2, <3>2
      <4>2. QED
        BY <1>4, <4>1
    <3>3. QED
      BY <3>1, <3>2
  <2>2. QED
    BY <1>3, <2>1
<1>8. ToSet(s) \subseteq ToSet(s \o t) /\ ToSet(t) \subseteq ToSet(s \o t)
  <2> HIDE DEF n
  <2>1. QED
    BY <1>3, <1>4, <1>5, <1>6
<1>9. QED
  BY <1>1, <1>7, <1>8

-----------------------------------------------------------------------------
(* The steps of a request, as the gateway and the callers see them: they    *)
(* keep it waiting, or start one call with the policy of the request.       *)

Asks(r) ==
    \E fits \in BOOLEAN, stream \in BOOLEAN : Start(r, request[r].privacy, fits, stream)

LEMMA AdvanceStep ==
  ASSUME NEW r \in Callers, Advance(r)
  PROVE  UNCHANGED request /\ (UNCHANGED gateway \/ Asks(r))
<1>1. CASE Submit(r)
  BY <1>1 DEF Submit
<1>2. CASE Classified(r)
  BY <1>2 DEF Classified
<1>3. CASE Classify(r)
  BY <1>3 DEF Classify, AskModel, Asks
<1>4. CASE Ask(r)
  BY <1>4 DEF Ask, AskModel, Asks
<1>5. CASE UseTool(r)
  BY <1>5 DEF UseTool
<1>6. CASE AgentEnds(r)
  BY <1>6 DEF AgentEnds
<1>7. CASE Search(r)
  BY <1>7 DEF Search, Delegate, DelegateFails
<1>8. CASE SummarizeLocally(r)
  BY <1>8 DEF SummarizeLocally
<1>9. CASE Summarize(r)
  BY <1>9 DEF Summarize, AskModel, Asks
<1>10. CASE Summarized(r)
  BY <1>10 DEF Summarized
<1>11. QED
  BY <1>1, <1>2, <1>3, <1>4, <1>5, <1>6, <1>7, <1>8, <1>9, <1>10 DEF Advance

LEMMA PrivacyOfRequest ==
  ASSUME request \in Loads, NEW r \in Callers
  PROVE  request[r].privacy \in Policies
BY RequestAssumption

\* What a step of the whole does to the gateway.
LEMMA Seen ==
  ASSUME request \in Loads, [Next]_vars
  PROVE  /\ UNCHANGED request
         /\ \/ \E r \in Callers : Asks(r) \/ Progress(r)
            \/ \E healthy \in BOOLEAN : HealthCheck(healthy)
            \/ Tick \/ UNCHANGED gateway
<1>1. ASSUME NEW r \in Callers, CallSteps(r)
      PROVE  UNCHANGED request /\ Progress(r)
  BY <1>1 DEF CallSteps
<1>2. QED
  BY <1>1, AdvanceStep DEF Next, vars

LEMMA GatewayStep ==
  ASSUME request \in Loads, [Next]_vars
  PROVE  [GatewayNext]_gateway
BY Seen, PrivacyOfRequest DEF Asks, GatewayNext, Begin

Loaded == request \in Loads

\* Requests use the shared gateway only as ModelGateway allows: what holds of
\* its calls and its breaker for every use holds in the whole system.
THEOREM GatewayShared == Spec => GatewaySpec
<1>1. Init => GatewayInit /\ Loaded
  BY DEF Init, Loaded
<1>2. Loaded /\ [Next]_vars => Loaded'
  BY Seen DEF Loaded
<1>3. Loaded /\ [Next]_vars => [GatewayNext]_gateway
  BY GatewayStep DEF Loaded
<1>4. QED
  BY <1>1, <1>2, <1>3, PTL DEF Spec, GatewaySpec

\* So whatever the requests do, the gateway keeps the policy of every call,
\* opens a breaker only for failures in a row, ends no call with a GatewayError
\* while a permitted provider is untried, and replays no stream.
THEOREM GatewayHolds ==
  Spec => [](PolicyKept /\ OpenIsEarned /\ FallbackTried) /\ NoReplay
BY GatewayShared, PolicyIsKept, BreakerEarned, FallbackIsTried, NeverReplayed, PTL

-----------------------------------------------------------------------------
(* Privacy end to end.                                                      *)

\* The policy of every call that has contacted anybody is the request's.
AsRequested ==
    /\ request \in Loads
    /\ \A r \in Callers : call[r].contacted # {} => call[r].privacy = request[r].privacy

LEMMA AsRequestedNext ==
  ASSUME GatewayTypeOK, CallsOK, AsRequested, [Next]_vars
  PROVE  AsRequested'
<1>1. UNCHANGED request
  BY Seen DEF AsRequested
<1>2. ASSUME NEW r \in Callers, Others(r),
             call'[r].contacted # {} => call'[r].privacy = request[r].privacy
      PROVE  AsRequested'
  BY <1>1, <1>2 DEF AsRequested, Others
<1>3. ASSUME NEW r \in Callers, Asks(r) PROVE AsRequested'
  BY <1>2, <1>3, StartStep, PrivacyOfRequest DEF Asks, AsRequested
<1>4. ASSUME NEW r \in Callers, Progress(r) PROVE AsRequested'
  <2>1. call[r].at = "request" /\ call'[r].privacy = call[r].privacy /\ Others(r)
    BY <1>4, ProgressStep
  <2>2. call[r].contacted # {}
    BY <2>1 DEF CallsOK, CallOK
  <2>3. QED
    BY <1>2, <2>1, <2>2 DEF AsRequested
<1>5. CASE (\E healthy \in BOOLEAN : HealthCheck(healthy)) \/ Tick \/ UNCHANGED gateway
  BY <1>1, <1>5 DEF HealthCheck, Tick, gateway, AsRequested
<1>6. QED
  BY <1>3, <1>4, <1>5, Seen DEF AsRequested

\* What a caller asked to keep local never reaches the remote provider, for
\* every routing, retry, tool turn and summary of its request.
THEOREM StaysLocal == Spec => []RequestStaysLocal
<1>1. Init => AsRequested
  BY DEF Init, GatewayInit, Idle, AsRequested
<1>2. Spec => [](GatewayTypeOK /\ CallsOK)
  BY GatewayShared, TypeAlways, CallsAlways, PTL
<1>3. Spec => []AsRequested
  BY <1>1, <1>2, AsRequestedNext, PTL DEF Spec
<1>4. CallsOK /\ AsRequested => RequestStaysLocal
  BY DEF CallsOK, CallOK, AsRequested, RequestStaysLocal
<1>5. QED
  BY <1>2, <1>3, <1>4, PTL

-----------------------------------------------------------------------------
(* The selection of domains.                                                *)

Names == STRING \cup Domains

LEMMA CandidatesAre ==
  ASSUME NEW domains \in Seq(Names), NEW systems \in Seq(Names), NEW components \in Seq(Names),
         \A n \in ToSet(domains) \cup ToSet(systems) : n \in DOMAIN Alias
  PROVE  LET found == Candidates(domains, systems, components)
         IN  /\ found \in Seq(Domains) /\ Apart(found)
             /\ ToSet(found)
                  = {Alias[n] : n \in ToSet(domains) \cup ToSet(systems) \cup ToSet(Known(components))}
<1> DEFINE known == Known(components)
           names == domains \o systems \o known
           images == [i \in DOMAIN names |-> Alias[names[i]]]
<1>1. known \in Seq(Names) /\ \A n \in ToSet(known) : n \in DOMAIN Alias
  BY KnownIs
<1>2. names \in Seq(Names) /\ ToSet(names) = ToSet(domains) \cup ToSet(systems) \cup ToSet(known)
  <2> DEFINE named == domains \o systems
  <2>1. named \in Seq(Names) /\ ToSet(named) = ToSet(domains) \cup ToSet(systems)
    BY ConcatRange
  <2> HIDE DEF known, named
  <2>2. named \o known \in Seq(Names) /\ ToSet(named \o known) = ToSet(named) \cup ToSet(known)
    BY <1>1, <2>1, ConcatRange
  <2>3. names = named \o known
    BY DEF named
  <2>4. QED
    BY <2>1, <2>2, <2>3
<1> HIDE DEF known, names
<1>3. DOMAIN names = 1..Len(names) /\ Len(names) \in Nat
  BY <1>2, LenProperties
<1>4. \A i \in DOMAIN names : names[i] \in DOMAIN Alias
  BY <1>1, <1>2 DEF ToSet
<1>5. images \in Seq(Domains)
  <2>1. \A i \in DOMAIN names : Alias[names[i]] \in Domains
    BY <1>4, ScopeAssumption
  <2>2. images \in [1..Len(names) -> Domains]
    BY <1>3, <2>1
  <2>3. QED
    BY <1>3, <2>2
<1>6. ToSet(images) = {Alias[n] : n \in ToSet(names)}
  BY DEF ToSet
<1>7. Candidates(domains, systems, components) = Deduped(images)
  BY DEF Candidates, names, known
<1> HIDE DEF images
<1>8. QED
  BY <1>2, <1>5, <1>6, <1>7, DedupedIs, DedupedApart DEF known

\* A selection without an error is a part of what the coordinator allows,
\* all the candidates or as many as the fan-out.
LEMMA SelectionIs ==
  ASSUME NEW domains \in Seq(Names), NEW systems \in Seq(Names), NEW components \in Seq(Names),
         Selection(domains, systems, components).error = "none"
  PROVE  LET ids == Selection(domains, systems, components).ids
             found == Candidates(domains, systems, components)
         IN  /\ \A n \in ToSet(domains) \cup ToSet(systems) : n \in DOMAIN Alias
             /\ found \in Seq(Domains) /\ found # <<>> /\ ToSet(found) \subseteq Allowed
             /\ ids = SubSeq(found, 1, LesserOf(FanOut, Len(found)))
             /\ ids \in Seq(Allowed) /\ ids # <<>>
             /\ ids = found \/ Len(ids) = FanOut
<1> DEFINE ids == Selection(domains, systems, components).ids
           found == Candidates(domains, systems, components)
           named == domains \o systems
<1>1. Known(named) = named
  BY DEF Selection
<1>2. /\ found # <<>> /\ ToSet(found) \subseteq Allowed
      /\ ids = SubSeq(found, 1, LesserOf(FanOut, Len(found)))
  BY <1>1 DEF Selection
<1>3. \A n \in ToSet(domains) \cup ToSet(systems) : n \in DOMAIN Alias
  <2>1. named \in Seq(Names) /\ ToSet(named) = ToSet(domains) \cup ToSet(systems)
    BY ConcatRange
  <2>2. \A n \in ToSet(Known(named)) : n \in DOMAIN Alias
    BY <2>1, KnownIs
  <2>3. QED
    BY <1>1, <2>1, <2>2
<1>4. found \in Seq(Domains)
  BY <1>3, CandidatesAre
<1> HIDE DEF found, ids
<1>5. Len(found) \in Nat \ {0} /\ \A i \in 1..Len(found) : found[i] \in Allowed
  <2>1. Len(found) \in Nat \ {0}
    BY <1>2, <1>4, EmptySeq, LenProperties
  <2>2. QED
    BY <1>2, <1>4, <2>1, RangeIs
<1> DEFINE n == LesserOf(FanOut, Len(found))
<1>6. n \in 1..Len(found) /\ (n = FanOut \/ n = Len(found))
  BY <1>5, ScopeAssumption DEF LesserOf
<1>7. ids \in Seq(Allowed) /\ Len(ids) = n
  <2>1. \A i \in 1..n : found[i] \in Allowed
    BY <1>5, <1>6
  <2> HIDE DEF n
  <2>2. /\ SubSeq(found, 1, n) \in Seq(Allowed)
        /\ Len(SubSeq(found, 1, n)) = IF 1 <= n THEN n - 1 + 1 ELSE 0
    BY <1>5, <1>6, <2>1, SubSeqProperties
  <2>3. QED
    BY <1>2, <1>5, <1>6, <2>2 DEF n
<1>8. ids # <<>>
  BY <1>5, <1>6, <1>7
<1>9. n = Len(found) => ids = found
  BY <1>2, <1>4, SubSeqFull
<1>10. QED
  BY <1>2, <1>3, <1>4, <1>6, <1>7, <1>8, <1>9 DEF found, ids

LEMMA PrefixApart ==
  ASSUME NEW S, NEW s \in Seq(S), Apart(s), NEW n \in 0..Len(s)
  PROVE  Apart(SubSeq(s, 1, n))
<1>1. SubSeq(s, 1, n) = [i \in 1..n |-> s[i]]
  BY SubSeqRestrict DEF Restrict
<1>2. Len(s) \in Nat /\ DOMAIN s = 1..Len(s)
  BY LenProperties
<1>3. QED
  BY <1>1, <1>2 DEF Apart

\* Selecting again from selected domains drops none of them, except at the
\* limit of the fan-out.
LEMMA SelectedAgain ==
  ASSUME NEW domains \in Seq(Names), NEW systems \in Seq(Names), NEW components \in Seq(Names),
         Selection(domains, systems, components).error = "none",
         NEW again, again = Selection(Selection(domains, systems, components).ids,
                                      systems, components),
         again.error = "none"
  PROVE  \/ Len(again.ids) >= FanOut
         \/ ToSet(Candidates(domains, systems, components)) \subseteq ToSet(again.ids)
<1> DEFINE found == Candidates(domains, systems, components)
           ids == Selection(domains, systems, components).ids
           second == Candidates(ids, systems, components)
<1>0. /\ ids = SubSeq(found, 1, LesserOf(FanOut, Len(found)))
      /\ \A n \in ToSet(systems) : n \in DOMAIN Alias
  BY SelectionIs
<1>1. found \in Seq(Domains) /\ ids \in Seq(Allowed) /\ (ids = found \/ Len(ids) = FanOut)
  BY SelectionIs
<1>2. ids \in Seq(Domains) /\ ids \in Seq(Names)
  <2>1. Allowed \subseteq Domains /\ Domains \subseteq Names
    BY ScopeAssumption DEF Names
  <2>2. ids \in Seq(Allowed)
    BY <1>1
  <2> HIDE DEF ids
  <2>3. ids \in Seq(Domains)
    BY <2>1, <2>2, SeqMonotonic
  <2>4. QED
    BY <2>1, <2>3, SeqMonotonic
<1>3. /\ second \in Seq(Domains) /\ again.ids \in Seq(Allowed)
      /\ (again.ids = second \/ Len(again.ids) = FanOut)
  BY <1>2, SelectionIs
<1>4. \A d \in ToSet(ids) : d \in DOMAIN Alias /\ Alias[d] = d
  BY <1>2, RangeIs, ScopeAssumption
<1>5. ToSet(ids) \subseteq ToSet(second)
  <2>1. ToSet(second) = {Alias[n] : n \in ToSet(ids) \cup ToSet(systems) \cup ToSet(Known(components))}
    <3>1. \A n \in ToSet(ids) \cup ToSet(systems) : n \in DOMAIN Alias
      BY <1>0, <1>4
    <3> HIDE DEF ids
    <3>2. QED
      BY <1>2, <3>1, CandidatesAre
  <2> HIDE DEF ids, second
  <2>2. QED
    BY <1>4, <2>1
<1>6. Apart(found)
  <2>1. \A n \in ToSet(domains) \cup ToSet(systems) : n \in DOMAIN Alias
    BY SelectionIs
  <2>2. QED
    BY <2>1, CandidatesAre
<1> HIDE DEF found, ids, second
<1>7. CASE ids = found
  <2>1. CASE again.ids = second
    BY <1>5, <1>7, <2>1 DEF found
  <2>2. CASE Len(again.ids) = FanOut
    BY <2>2, ScopeAssumption
  <2>3. QED
    BY <1>3, <2>1, <2>2
<1>8. CASE ids # found
  <2>1. Len(ids) = FanOut
    BY <1>1, <1>8
  <2>2. Apart(ids)
    <3>1. LesserOf(FanOut, Len(found)) \in 0..Len(found)
      BY <1>1, LenProperties, ScopeAssumption DEF LesserOf
    <3>2. found \in Seq(Domains)
      BY <1>1
    <3>3. Apart(SubSeq(found, 1, LesserOf(FanOut, Len(found))))
      BY <1>6, <3>1, <3>2, PrefixApart
    <3>4. QED
      BY <1>0, <3>3
  <2>3. FanOut <= Len(second)
    <3>1. ids \in Seq(Domains) /\ second \in Seq(Domains)
      BY <1>2, <1>3
    <3>2. Len(ids) <= Len(second)
      BY <3>1, <1>5, <2>2, ApartFits
    <3>3. QED
      BY <2>1, <3>2
  <2>4. Len(again.ids) >= FanOut
    <3>1. CASE again.ids = second
      BY <2>3, <3>1, <1>3, LenProperties, ScopeAssumption
    <3>2. CASE Len(again.ids) = FanOut
      BY <3>2, ScopeAssumption
    <3>3. QED
      BY <1>3, <3>1, <3>2
  <2>5. QED
    BY <2>4
<1>9. QED
  BY <1>7, <1>8

-----------------------------------------------------------------------------
(* What a search may return.                                                *)

\* The packages of one search of domain d confined to systems.
InBounds(p, d, systems) ==
    /\ p.domain = d /\ p.refs \subseteq Chunks
    /\ \A c \in p.refs :
        /\ c.domain = d
        /\ Scopes[d] # {} => c.scope \in Scopes[d]
        /\ HardAcl[d] # {} => c.system \in HardAcl[d]
        /\ systems # {} => \E s \in systems : c.system \in {s, Canonical(s)}

LEMMA VisibleInBounds ==
  ASSUME NEW d, NEW systems, ~OutsideAcl(d, systems), NEW mode, NEW types,
         NEW c \in Visible(d, systems, mode, types)
  PROVE  /\ c \in Chunks /\ c.domain = d
         /\ Scopes[d] # {} => c.scope \in Scopes[d]
         /\ HardAcl[d] # {} => c.system \in HardAcl[d]
         /\ systems # {} => \E s \in systems : c.system \in {s, Canonical(s)}
<1>1. c \in Chunks /\ c.domain = d /\ (Scopes[d] # {} => c.scope \in Scopes[d])
  BY DEF Visible
<1>2. SystemFilter(d, systems) = {} \/ c.system \in SystemFilter(d, systems)
  BY DEF Visible
<1>3. CASE HardAcl[d] = {}
  <2>1. SystemFilter(d, systems) = systems
    BY <1>3 DEF SystemFilter
  <2>2. QED
    BY <1>1, <1>2, <1>3, <2>1
<1>4. CASE HardAcl[d] # {} /\ systems = {}
  <2>1. SystemFilter(d, systems) = HardAcl[d]
    BY <1>4 DEF SystemFilter
  <2>2. QED
    BY <1>1, <1>2, <1>4, <2>1
<1>5. CASE HardAcl[d] # {} /\ systems # {}
  <2>1. SystemFilter(d, systems) = {Canonical(s) : s \in systems}
    BY <1>5 DEF SystemFilter
  <2>2. {Canonical(s) : s \in systems} \subseteq HardAcl[d]
    BY <1>5 DEF OutsideAcl
  <2>3. {Canonical(s) : s \in systems} # {}
    BY <1>5
  <2>4. QED
    BY <1>1, <1>2, <2>1, <2>2, <2>3
<1>6. QED
  BY <1>3, <1>4, <1>5

LEMMA SearchInBounds ==
  ASSUME NEW d, NEW systems, ~OutsideAcl(d, systems), NEW mode, NEW types, NEW limit,
         NEW hits \in Hits(d, systems, mode, types, limit), NEW best,
         NEW p \in Packages(d, hits, best)
  PROVE  InBounds(p, d, systems)
<1>1. hits \subseteq Visible(d, systems, mode, types)
  BY DEF Hits, Matches, LogMatches, TermMatches, Ranked, kSubset
<1>2. p.domain = d /\ p.refs \subseteq hits
  BY DEF Packages
<1>3. QED
  BY <1>1, <1>2, VisibleInBounds DEF InBounds

\* Whatever the model asks the tools of a domain for.
LEMMA ToolInBounds ==
  ASSUME NEW d \in Domains, NEW hits \in ToolHits[d], NEW best, NEW p \in Packages(d, hits, best)
  PROVE  InBounds(p, d, {})
<1>1. CASE hits = {}
  BY <1>1 DEF Packages, Versions
<1>2. CASE \E mode \in AgentModes : \E systems \in SUBSET {c.system : c \in Chunks} :
             /\ ~OutsideAcl(d, systems)
             /\ hits \in Hits(d, systems, mode, {}, Cardinality(Chunks))
  <2>1. PICK mode \in AgentModes, systems \in SUBSET {c.system : c \in Chunks} :
             /\ ~OutsideAcl(d, systems)
             /\ hits \in Hits(d, systems, mode, {}, Cardinality(Chunks))
    BY <1>2
  <2>2. InBounds(p, d, systems)
    BY <2>1, SearchInBounds
  <2>3. QED
    BY <2>2 DEF InBounds
<1>3. QED
  BY <1>1, <1>2 DEF ToolHits

-----------------------------------------------------------------------------
(* The inductive invariant of a request.                                    *)

Outcomes == {"waiting", "ok", "failed"}

ShapeOK ==
    /\ request \in Loads
    /\ stage \in [Callers -> Stages]
    /\ selected \in [Callers -> Seq(Domains)]
    /\ task \in [Callers -> Seq(Outcomes)]
    /\ DOMAIN evidence = Callers
    /\ turns \in [Callers -> 0..MaxTurns]

\* What the request names, without a selection of its own when it names none.
CandidatesOf(r) == Candidates(request[r].domains, request[r].systems, request[r].components)

\* A request under way has found nothing before its domains are known, an
\* agent has one domain, a correlation has one task for each of its own.
PlanOK(r) ==
    /\ stage[r] \in {"new", "classifying"} =>
           selected[r] = <<>> /\ task[r] = <<>> /\ evidence[r] = {}
    /\ stage[r] = "classifying" => CandidatesOf(r) = <<>>
    /\ stage[r] \in {"ready", "asking"} => Len(selected[r]) = 1 /\ task[r] = <<>>
    /\ task[r] # <<>> =>
           /\ Len(task[r]) = Len(selected[r])
           /\ ToSet(selected[r]) \subseteq Allowed
           /\ \/ Len(selected[r]) >= FanOut
              \/ ToSet(CandidatesOf(r)) \subseteq ToSet(selected[r])

\* What it found is within the bounds of one of its domains, and for a
\* correlation within the systems it named of that domain.
FoundOK(r) ==
    \A p \in evidence[r] : \E i \in DOMAIN selected[r] :
        InBounds(p, selected[r][i],
                 IF task[r] = <<>> THEN {}
                 ELSE SystemsOf(request[r].systems, selected[r][i]))

RequestsOK == ShapeOK /\ \A r \in Callers : PlanOK(r) /\ FoundOK(r)

\* A step of one caller leaves the requests of the others alone.
Alone(r) ==
    /\ UNCHANGED request
    /\ \A q \in Callers \ {r} :
        /\ stage'[q] = stage[q] /\ selected'[q] = selected[q]
        /\ task'[q] = task[q] /\ evidence'[q] = evidence[q] /\ turns'[q] = turns[q]

LEMMA OthersKept ==
  ASSUME RequestsOK, NEW r \in Callers, Alone(r), ShapeOK', PlanOK(r)', FoundOK(r)'
  PROVE  RequestsOK'
<1>1. ASSUME NEW q \in Callers, q # r PROVE PlanOK(q)' /\ FoundOK(q)'
  <2>1. /\ request' = request /\ stage'[q] = stage[q] /\ selected'[q] = selected[q]
        /\ task'[q] = task[q] /\ evidence'[q] = evidence[q]
    BY <1>1 DEF Alone
  <2>2. PlanOK(q) /\ FoundOK(q)
    BY DEF RequestsOK
  <2>3. PlanOK(q)'
    BY <2>1, <2>2 DEF PlanOK, CandidatesOf
  <2>4. FoundOK(q)'
    BY <2>1, <2>2 DEF FoundOK
  <2>5. QED
    BY <2>3, <2>4
<1>2. QED
  BY <1>1 DEF RequestsOK

\* A step that only moves a request on.
Moves(r, s) ==
    /\ UNCHANGED <<request, selected, task, evidence, turns>>
    /\ Goto(r, s)

LEMMA MoveKeeps ==
  ASSUME RequestsOK, NEW r \in Callers, NEW s \in Stages, Moves(r, s),
         s = "classifying" => stage[r] = "new" /\ CandidatesOf(r) = <<>>,
         s = "asking" => stage[r] = "ready",
         s \notin {"new", "ready"}
  PROVE  RequestsOK'
<1>1. ShapeOK' /\ Alone(r) /\ stage'[r] = s
  BY DEF RequestsOK, ShapeOK, Moves, Goto, Alone
<1>2. PlanOK(r)'
  BY <1>1 DEF RequestsOK, PlanOK, Moves, CandidatesOf
<1>3. FoundOK(r)'
  BY DEF RequestsOK, FoundOK, Moves
<1>4. QED
  BY <1>1, <1>2, <1>3, OthersKept

LEMMA RaiseKeeps ==
  ASSUME RequestsOK, NEW r \in Callers, Raise(r), UNCHANGED request
  PROVE  RequestsOK'
<1>1. Moves(r, "raised") /\ "raised" \in Stages
  BY DEF Raise, Moves, Stages
<1>2. QED
  BY <1>1, MoveKeeps

\* The names of a request are strings.
LEMMA NamesOfRequest ==
  ASSUME request \in Loads, NEW r \in Callers
  PROVE  /\ request[r].domains \in Seq(Names)
         /\ request[r].systems \in Seq(Names)
         /\ request[r].components \in Seq(Names)
<1>1. /\ request[r].domains \in Seq(STRING)
      /\ request[r].systems \in Seq(STRING)
      /\ request[r].components \in Seq(STRING)
  BY RequestAssumption
<1>2. STRING \subseteq Names
  BY DEF Names
<1>3. QED
  BY <1>1, <1>2, SeqMonotonic

\* The agent of one domain.
LEMMA RunAgentKeeps ==
  ASSUME RequestsOK, NEW r \in Callers, stage[r] \in {"new", "classifying"},
         NEW name, RunAgent(r, name), UNCHANGED request
  PROVE  RequestsOK'
<1>1. CASE name \notin DOMAIN AgentAlias
  BY <1>1, RaiseKeeps DEF RunAgent
<1>2. CASE name \in DOMAIN AgentAlias
  <2> DEFINE d == AgentAlias[name]
  <2>1. d \in Domains
    BY <1>2, ScopeAssumption
  <2>2. /\ Goto(r, "ready") /\ selected' = [selected EXCEPT ![r] = <<d>>]
        /\ UNCHANGED <<request, task, evidence, turns>>
    BY <1>2 DEF RunAgent
  <2>3. <<d>> \in Seq(Domains) /\ Len(<<d>>) = 1
    BY <2>1
  <2> HIDE DEF d
  <2>4. ShapeOK' /\ Alone(r) /\ stage'[r] = "ready" /\ selected'[r] = <<d>>
    BY <2>2, <2>3 DEF RequestsOK, ShapeOK, Goto, Alone, Stages
  <2>5. task'[r] = <<>> /\ evidence'[r] = {}
    BY <2>2 DEF RequestsOK, PlanOK
  <2>6. PlanOK(r)'
    BY <2>3, <2>4, <2>5 DEF PlanOK
  <2>7. FoundOK(r)'
    BY <2>5 DEF FoundOK
  <2>8. QED
    BY <2>4, <2>6, <2>7, OthersKept
<1>3. QED
  BY <1>1, <1>2

\* The selection of a correlation.
LEMMA CorrelateKeeps ==
  ASSUME RequestsOK, NEW r \in Callers, stage[r] \in {"new", "classifying"},
         NEW ids \in Seq(Names), Correlate(r, ids), UNCHANGED request,
         LET s == Selection(ids, request[r].systems, request[r].components) IN
           s.error = "none" =>
             \/ Len(s.ids) >= FanOut
             \/ ToSet(CandidatesOf(r)) \subseteq ToSet(s.ids)
  PROVE  RequestsOK'
<1> DEFINE s == Selection(ids, request[r].systems, request[r].components)
           waiting == [i \in DOMAIN s.ids |-> "waiting"]
<1>1. CASE s.error # "none"
  BY <1>1, RaiseKeeps DEF Correlate
<1>2. CASE s.error = "none"
  <2>1. /\ request[r].systems \in Seq(Names)
        /\ request[r].components \in Seq(Names)
    BY NamesOfRequest DEF RequestsOK, ShapeOK
  <2>2. s.ids \in Seq(Allowed) /\ s.ids # <<>>
    BY <1>2, <2>1, SelectionIs
  <2>3. /\ Goto(r, "delegating") /\ selected' = [selected EXCEPT ![r] = s.ids]
        /\ task' = [task EXCEPT ![r] = waiting] /\ UNCHANGED <<request, evidence, turns>>
    BY <1>2 DEF Correlate
  <2>4. \/ Len(s.ids) >= FanOut
        \/ ToSet(CandidatesOf(r)) \subseteq ToSet(s.ids)
    BY <1>2
  <2> HIDE DEF s
  <2>5. s.ids \in Seq(Domains)
    BY <2>2, SeqMonotonic, ScopeAssumption
  <2>6. waiting \in Seq(Outcomes) /\ Len(waiting) = Len(s.ids)
    <3>1. DOMAIN s.ids = 1..Len(s.ids) /\ Len(s.ids) \in Nat
      BY <2>2, LenProperties
    <3>2. waiting \in [1..Len(s.ids) -> Outcomes]
      BY <3>1 DEF Outcomes
    <3>3. waiting \in Seq(Outcomes)
      BY <3>1, <3>2
    <3>4. QED
      BY <3>1, <3>2, <3>3, LenProperties
  <2> HIDE DEF waiting
  <2>7. ToSet(s.ids) \subseteq Allowed
    BY <2>2, RangeIs
  <2>8. /\ ShapeOK' /\ Alone(r) /\ stage'[r] = "delegating"
        /\ selected'[r] = s.ids /\ task'[r] = waiting
    BY <2>3, <2>5, <2>6 DEF RequestsOK, ShapeOK, Goto, Alone, Stages
  <2>9. evidence'[r] = {} /\ CandidatesOf(r)' = CandidatesOf(r)
    BY <2>3 DEF RequestsOK, PlanOK, CandidatesOf
  <2>10. PlanOK(r)'
    BY <2>4, <2>6, <2>7, <2>8, <2>9 DEF PlanOK
  <2>11. FoundOK(r)'
    BY <2>9 DEF FoundOK
  <2>12. QED
    BY <2>8, <2>10, <2>11, OthersKept
<1>3. QED
  BY <1>1, <1>2

LEMMA SubmitKeeps ==
  ASSUME RequestsOK, NEW r \in Callers, Submit(r)
  PROVE  RequestsOK'
<1> DEFINE q == request[r]
           s == Selection(q.domains, q.systems, q.components)
<1>1. stage[r] = "new" /\ UNCHANGED request
  BY DEF Submit
<1>2. Planned[request[r]] = s
  BY DEF RequestsOK, ShapeOK, Planned
<1>3. CASE s.error # "none"
  BY <1>1, <1>2, <1>3, RaiseKeeps DEF Submit
<1>4. CASE s.error = "none"
  <2>1. q.domains \in Seq(Names) /\ q.systems \in Seq(Names) /\ q.components \in Seq(Names)
    BY NamesOfRequest DEF RequestsOK, ShapeOK
  <2>2. Dispatch(r, s.ids)
    BY <1>2, <1>4 DEF Submit
  <2>3. s.ids \in Seq(Allowed)
    BY <1>4, <2>1, SelectionIs
  <2>4. s.ids \in Seq(Names)
    <3>1. Allowed \subseteq Names
      BY ScopeAssumption DEF Names
    <3> HIDE DEF s
    <3>2. QED
      BY <2>3, <3>1, SeqMonotonic
  <2>5. LET again == Selection(s.ids, q.systems, q.components) IN
          again.error = "none" =>
             \/ Len(again.ids) >= FanOut
             \/ ToSet(CandidatesOf(r)) \subseteq ToSet(again.ids)
    BY <1>4, <2>1, SelectedAgain DEF CandidatesOf
  <2> HIDE DEF s
  <2>6. QED
    BY <1>1, <2>2, <2>4, <2>5, RunAgentKeeps, CorrelateKeeps DEF Dispatch
<1>5. QED
  BY <1>3, <1>4

LEMMA ClassifyKeeps ==
  ASSUME RequestsOK, NEW r \in Callers, Classify(r)
  PROVE  RequestsOK'
<1> DEFINE q == request[r]
           s == Selection(q.domains, q.systems, q.components)
<1>1. Planned[request[r]] = s
  BY DEF RequestsOK, ShapeOK, Planned
<1>2. s.error = "empty"
  BY <1>1 DEF Classify
<1>3. CandidatesOf(r) = <<>>
  BY <1>2 DEF Selection, CandidatesOf
<1>4. Moves(r, "classifying") /\ stage[r] = "new"
  BY DEF Classify, AskModel, Moves
<1>5. QED
  BY <1>3, <1>4, MoveKeeps DEF Stages

LEMMA ClassifiedKeeps ==
  ASSUME RequestsOK, NEW r \in Callers, Classified(r)
  PROVE  RequestsOK'
<1>1. stage[r] = "classifying" /\ UNCHANGED request
  BY DEF Classified
<1>2. CASE Raise(r)
  BY <1>1, <1>2, RaiseKeeps
<1>3. CASE \E ids \in Answers : Dispatch(r, ids)
  <2>1. PICK ids \in Answers : Dispatch(r, ids)
    BY <1>3
  <2>2. ids \in Seq(Names)
    <3>1. ids \in Seq(STRING) /\ STRING \subseteq Names
      BY RequestAssumption DEF Names
    <3>2. QED
      BY <3>1, SeqMonotonic
  <2>3. ToSet(CandidatesOf(r)) = {}
    <3>1. CandidatesOf(r) = <<>>
      BY <1>1 DEF RequestsOK, PlanOK
    <3>2. QED
      BY <3>1 DEF ToSet
  <2>4. QED
    BY <1>1, <2>1, <2>2, <2>3, RunAgentKeeps, CorrelateKeeps DEF Dispatch
<1>4. QED
  BY <1>2, <1>3 DEF Classified

LEMMA UseToolKeeps ==
  ASSUME RequestsOK, NEW r \in Callers, UseTool(r)
  PROVE  RequestsOK'
<1> DEFINE d == selected[r][1]
<1>1. stage[r] = "asking" /\ Len(selected[r]) = 1 /\ task[r] = <<>>
  BY DEF UseTool, RequestsOK, PlanOK
<1>2. d \in Domains /\ 1 \in DOMAIN selected[r]
  <2>1. selected[r] \in Seq(Domains)
    BY DEF RequestsOK, ShapeOK
  <2>2. 1 \in 1..Len(selected[r])
    BY <1>1
  <2>3. QED
    BY <2>1, <2>2, ElementOfSeq, LenProperties
<1>3. PICK hits \in ToolHits[d] : \E best \in BestOf(hits) :
         evidence' = [evidence EXCEPT ![r] = @ \cup Packages(d, hits, best)]
  BY DEF UseTool
<1>4. PICK best \in BestOf(hits) :
         evidence' = [evidence EXCEPT ![r] = @ \cup Packages(d, hits, best)]
  BY <1>3
<1>5. /\ Goto(r, "ready") /\ turns[r] < MaxTurns
      /\ turns' = [turns EXCEPT ![r] = @ + 1] /\ UNCHANGED <<request, selected, task>>
  BY DEF UseTool
<1>6. turns[r] + 1 \in 0..MaxTurns
  BY <1>5, RequestAssumption DEF RequestsOK, ShapeOK
<1>7. ShapeOK' /\ Alone(r) /\ stage'[r] = "ready"
  BY <1>4, <1>5, <1>6 DEF RequestsOK, ShapeOK, Goto, Alone, Stages
<1>8. PlanOK(r)'
  BY <1>1, <1>5, <1>7 DEF PlanOK
<1>9. \A p \in evidence'[r] : p \in evidence[r] \/ p \in Packages(d, hits, best)
  BY <1>4 DEF RequestsOK, ShapeOK
<1>10. \A p \in Packages(d, hits, best) : InBounds(p, d, {})
  BY <1>2, ToolInBounds
<1>11. FoundOK(r)'
  <2>1. ASSUME NEW p \in evidence'[r]
        PROVE  \E i \in DOMAIN selected[r] : InBounds(p, selected[r][i], {})
    <3>1. CASE p \in evidence[r]
      BY <1>1, <3>1 DEF RequestsOK, FoundOK
    <3>2. CASE p \in Packages(d, hits, best)
      BY <1>2, <1>10, <3>2
    <3>3. QED
      BY <1>9, <2>1, <3>1, <3>2
  <2>2. QED
    BY <1>1, <1>5, <2>1 DEF FoundOK
<1>12. QED
  BY <1>7, <1>8, <1>11, OthersKept

\* A task that ends.
LEMMA SettleKeeps ==
  ASSUME ShapeOK, NEW r \in Callers, NEW i \in DOMAIN task[r], NEW outcome \in Outcomes,
         Settle(r, i, outcome)
  PROVE  /\ task' \in [Callers -> Seq(Outcomes)]
         /\ Len(task'[r]) = Len(task[r]) /\ task[r] # <<>> /\ task'[r] # <<>>
         /\ \A q \in Callers \ {r} : task'[q] = task[q]
<1>1. task[r] \in Seq(Outcomes)
  BY DEF ShapeOK
<1>2. i \in 1..Len(task[r]) /\ Len(task[r]) \in Nat
  BY <1>1, LenProperties
<1> DEFINE settled == [task[r] EXCEPT ![i] = outcome]
<1>3. settled \in Seq(Outcomes) /\ Len(settled) = Len(task[r])
  BY <1>1, <1>2, ExceptSeq
<1>4. task' = [task EXCEPT ![r] = settled]
  BY DEF Settle
<1> HIDE DEF settled
<1>5. task[r] # <<>> /\ settled # <<>>
  BY <1>2, <1>3, EmptySeq
<1>6. QED
  BY <1>3, <1>4, <1>5 DEF ShapeOK

LEMMA DelegateKeeps ==
  ASSUME RequestsOK, NEW r \in Callers, NEW i \in DOMAIN task[r], Delegate(r, i)
  PROVE  RequestsOK'
<1> DEFINE d == selected[r][i]
           systems == SystemsOf(request[r].systems, d)
           limit == Share(request[r].budget, Len(selected[r]), i)
<1>1. /\ task' \in [Callers -> Seq(Outcomes)]
      /\ Len(task'[r]) = Len(task[r]) /\ task[r] # <<>> /\ task'[r] # <<>>
      /\ \A q \in Callers \ {r} : task'[q] = task[q]
  BY SettleKeeps DEF Delegate, RequestsOK, Outcomes
<1>2. stage[r] = "delegating" /\ ~OutsideAcl(d, systems)
      /\ UNCHANGED <<request, stage, selected, turns>>
  BY DEF Delegate
<1>3. PICK mode \in ModesFor(request[r].mode, request[r].types) :
         \E hits \in Hits(d, systems, mode, request[r].types, limit) :
         \E best \in BestOf(hits) :
           evidence' = [evidence EXCEPT ![r] = @ \cup Packages(d, hits, best)]
  BY DEF Delegate
<1>4. PICK hits \in Hits(d, systems, mode, request[r].types, limit) :
         \E best \in BestOf(hits) :
           evidence' = [evidence EXCEPT ![r] = @ \cup Packages(d, hits, best)]
  BY <1>3
<1>5. PICK best \in BestOf(hits) :
         evidence' = [evidence EXCEPT ![r] = @ \cup Packages(d, hits, best)]
  BY <1>4
<1>6. \A p \in Packages(d, hits, best) : InBounds(p, d, systems)
  <2> HIDE DEF systems, limit
  <2>1. QED
    BY <1>2, SearchInBounds
<1>7. ShapeOK' /\ Alone(r) /\ DOMAIN selected[r] = DOMAIN task[r]
  <2>1. ShapeOK' /\ Alone(r)
    BY <1>1, <1>2, <1>5 DEF RequestsOK, ShapeOK, Alone
  <2>2. DOMAIN selected[r] = DOMAIN task[r]
    BY <1>1, LenProperties DEF RequestsOK, ShapeOK, PlanOK
  <2>3. QED
    BY <2>1, <2>2
<1>8. PlanOK(r)'
  BY <1>1, <1>2 DEF RequestsOK, PlanOK, CandidatesOf
<1>9. \A p \in evidence'[r] : p \in evidence[r] \/ p \in Packages(d, hits, best)
  BY <1>5 DEF RequestsOK, ShapeOK
<1>10. FoundOK(r)'
  <2> HIDE DEF limit
  <2>1. ASSUME NEW p \in evidence'[r]
        PROVE  \E j \in DOMAIN selected[r] :
                 InBounds(p, selected[r][j], SystemsOf(request[r].systems, selected[r][j]))
    <3>1. CASE p \in evidence[r]
      BY <1>1, <3>1 DEF RequestsOK, FoundOK
    <3>2. CASE p \in Packages(d, hits, best)
      BY <1>6, <1>7, <3>2
    <3>3. QED
      BY <1>9, <2>1, <3>1, <3>2
  <2>2. QED
    BY <1>1, <1>2, <2>1 DEF FoundOK
<1>11. QED
  BY <1>7, <1>8, <1>10, OthersKept

LEMMA DelegateFailsKeeps ==
  ASSUME RequestsOK, NEW r \in Callers, NEW i \in DOMAIN task[r], DelegateFails(r, i)
  PROVE  RequestsOK'
<1>1. /\ task' \in [Callers -> Seq(Outcomes)]
      /\ Len(task'[r]) = Len(task[r]) /\ task[r] # <<>> /\ task'[r] # <<>>
      /\ \A q \in Callers \ {r} : task'[q] = task[q]
  BY SettleKeeps DEF DelegateFails, RequestsOK, Outcomes
<1>2. stage[r] = "delegating" /\ UNCHANGED <<request, stage, selected, evidence, turns>>
  BY DEF DelegateFails
<1>3. ShapeOK' /\ Alone(r)
  BY <1>1, <1>2 DEF RequestsOK, ShapeOK, Alone
<1>4. PlanOK(r)'
  BY <1>1, <1>2 DEF RequestsOK, PlanOK, CandidatesOf
<1>5. FoundOK(r)'
  BY <1>1, <1>2 DEF RequestsOK, FoundOK
<1>6. QED
  BY <1>3, <1>4, <1>5, OthersKept

LEMMA AdvanceKeeps ==
  ASSUME RequestsOK, NEW r \in Callers, Advance(r)
  PROVE  RequestsOK'
<1>1. CASE Submit(r) \/ Classify(r) \/ Classified(r)
  BY <1>1, SubmitKeeps, ClassifyKeeps, ClassifiedKeeps
<1>2. CASE Ask(r)
  <2>1. Moves(r, "asking") /\ stage[r] = "ready"
    BY <1>2 DEF Ask, AskModel, Moves
  <2>2. QED
    BY <2>1, MoveKeeps DEF Stages
<1>3. CASE UseTool(r)
  BY <1>3, UseToolKeeps
<1>4. CASE AgentEnds(r)
  <2>1. Moves(r, "answered") \/ Moves(r, "raised")
    BY <1>4 DEF AgentEnds, Moves
  <2>2. QED
    BY <2>1, MoveKeeps DEF Stages
<1>5. CASE Search(r)
  BY <1>5, DelegateKeeps, DelegateFailsKeeps DEF Search
<1>6. CASE SummarizeLocally(r) \/ Summarized(r)
  <2>1. Moves(r, "answered")
    BY <1>6 DEF SummarizeLocally, Summarized, Moves
  <2>2. QED
    BY <2>1, MoveKeeps DEF Stages
<1>7. CASE Summarize(r)
  <2>1. Moves(r, "summarizing")
    BY <1>7 DEF Summarize, AskModel, Moves
  <2>2. QED
    BY <2>1, MoveKeeps DEF Stages
<1>8. QED
  BY <1>1, <1>2, <1>3, <1>4, <1>5, <1>6, <1>7 DEF Advance

LEMMA RequestsNext ==
  ASSUME RequestsOK, [Next]_vars
  PROVE  RequestsOK'
<1>1. ASSUME NEW r \in Callers, Advance(r) PROVE RequestsOK'
  BY <1>1, AdvanceKeeps
<1>2. CASE UNCHANGED <<request, local>>
  BY <1>2 DEF local, RequestsOK, ShapeOK, PlanOK, FoundOK, CandidatesOf
<1>3. QED
  BY <1>1, <1>2 DEF Next, CallSteps, vars

\* Where every request is, and what it may have found.
THEOREM RequestsAlways == Spec => []RequestsOK
<1>1. Init => RequestsOK
  <2> SUFFICES ASSUME Init PROVE RequestsOK
    OBVIOUS
  <2>1. ShapeOK
    BY EmptySeq, RequestAssumption DEF Init, ShapeOK, Stages
  <2>2. \A r \in Callers : PlanOK(r) /\ FoundOK(r)
    BY DEF Init, PlanOK, FoundOK
  <2>3. QED
    BY <2>1, <2>2 DEF RequestsOK
<1>2. QED
  BY <1>1, RequestsNext, PTL DEF Spec

\* The state of the whole system has its type.
THEOREM RequestsTyped == Spec => []TypeOK
<1>1. RequestsOK /\ GatewayTypeOK => TypeOK
  <2> SUFFICES ASSUME RequestsOK, GatewayTypeOK PROVE TypeOK
    OBVIOUS
  <2>1. ASSUME NEW r \in Callers, NEW p \in evidence[r]
        PROVE  p.domain \in Domains /\ p.refs \subseteq Chunks
    <3>1. PICK i \in DOMAIN selected[r] : p.domain = selected[r][i] /\ p.refs \subseteq Chunks
      BY DEF RequestsOK, FoundOK, InBounds
    <3>2. selected[r][i] \in Domains
      BY <3>1, ElementOfSeq, LenProperties DEF RequestsOK, ShapeOK
    <3>3. QED
      BY <3>1, <3>2
  <2>2. QED
    BY <2>1 DEF RequestsOK, ShapeOK, TypeOK, Outcomes
<1>2. Spec => []GatewayTypeOK
  BY GatewayShared, TypeAlways, PTL
<1>3. QED
  BY <1>1, <1>2, RequestsAlways, PTL

\* Evidence stays within the boundary of the domains of the request: for any
\* profiles, ACLs, allow list, evidence and loads, however the searches of a
\* correlation interleave and whatever the model asks its tools for.
THEOREM BoundaryKept == Spec => []EvidenceInScope
<1>1. RequestsOK => EvidenceInScope
  <2> SUFFICES ASSUME RequestsOK, NEW r \in Callers, NEW p \in evidence[r]
               PROVE  /\ p.domain \in ToSet(selected[r])
                      /\ Correlated(r) => p.domain \in Allowed
                      /\ \A c \in p.refs :
                          /\ c.domain = p.domain
                          /\ Scopes[c.domain] # {} => c.scope \in Scopes[c.domain]
                          /\ HardAcl[c.domain] # {} => c.system \in HardAcl[c.domain]
                          /\ (Correlated(r) /\ SystemsOf(request[r].systems, c.domain) # {})
                                => \E s \in SystemsOf(request[r].systems, c.domain) :
                                       c.system \in {s, Canonical(s)}
    BY DEF EvidenceInScope
  <2>1. PICK i \in DOMAIN selected[r] :
          InBounds(p, selected[r][i],
                   IF task[r] = <<>> THEN {}
                   ELSE SystemsOf(request[r].systems, selected[r][i]))
    BY DEF RequestsOK, FoundOK
  <2>2. p.domain = selected[r][i] /\ p.domain \in ToSet(selected[r])
    BY <2>1 DEF InBounds, ToSet
  <2>3. Correlated(r) => p.domain \in Allowed
    BY <2>2 DEF Correlated, RequestsOK, PlanOK
  <2>4. QED
    BY <2>1, <2>2, <2>3 DEF InBounds, Correlated
<1>2. QED
  BY <1>1, RequestsAlways, PTL

\* A correlated answer names what is missing from it.
THEOREM GapsTold == Spec => []GapsAreTold
<1>1. RequestsOK => GapsAreTold
  <2> SUFFICES ASSUME RequestsOK, NEW r \in Callers, Correlated(r),
                      NEW i \in DOMAIN selected[r], PackagesOf(r, selected[r][i]) = {}
               PROVE  Findings(r) \cap {"hypothesis", "missing_evidence"} # {}
    BY DEF GapsAreTold
  <2>1. i \in DOMAIN task[r]
    BY LenProperties DEF RequestsOK, ShapeOK, PlanOK, Correlated
  <2>2. CASE task[r][i] = "ok"
    <3> DEFINE told(d) == {"fact"} \cup (IF PackagesOf(r, d) = {} THEN {"hypothesis"} ELSE {})
                    \cup (IF Cardinality(PackagesOf(r, d)) > 1 THEN {"inference"} ELSE {})
               succeeded == {selected[r][j] : j \in {k \in DOMAIN task[r] : task[r][k] = "ok"}}
    <3>1. selected[r][i] \in succeeded
      BY <2>1, <2>2
    <3>2. Facts(r) = UNION {told(d) : d \in succeeded}
      BY DEF Facts
    <3>3. "hypothesis" \in told(selected[r][i])
      OBVIOUS
    <3> HIDE DEF told, succeeded
    <3>4. "hypothesis" \in Facts(r)
      BY <3>1, <3>2, <3>3
    <3>5. QED
      BY <3>4 DEF Findings
  <2>3. CASE task[r][i] # "ok"
    <3>1. Status(r) # "ok"
      BY <2>1, <2>3 DEF Status
    <3>2. QED
      BY <3>1 DEF Findings, Failures
  <2>4. QED
    BY <2>2, <2>3
<1>2. QED
  BY <1>1, RequestsAlways, PTL

\* What is dropped is dropped at the limit, although a request is selected
\* and cut twice.
THEOREM DropsFlagged == Spec => []DropIsFlagged
<1>1. RequestsOK => DropIsFlagged
  BY DEF RequestsOK, PlanOK, CandidatesOf, Correlated, DropIsFlagged
<1>2. QED
  BY <1>1, RequestsAlways, PTL

-----------------------------------------------------------------------------
(* The evidence budget.  What the tasks of a correlation may return is a     *)
(* sum over them; it is kept in closed form, and every task that returns    *)
(* adds its share to it.                                                    *)

LEMMA DivMod ==
  ASSUME NEW a \in Nat, NEW n \in Nat \ {0}
  PROVE  /\ a \div n \in Nat /\ a % n \in 0..(n - 1)
         /\ a = n * (a \div n) + (a % n)
OBVIOUS

LEMMA CountTo ==
  ASSUME NEW n \in Nat
  PROVE  IsFiniteSet(1..n) /\ Cardinality(1..n) = n
<1>1. 1 \in Int /\ n \in Int
  OBVIOUS
<1>2. IsFiniteSet(1..n) /\ Cardinality(1..n) = IF 1 > n THEN 0 ELSE n - 1 + 1
  BY <1>1, FS_Interval
<1>3. QED
  BY <1>2

LEMMA BudgetType ==
  ASSUME NEW budget \in Nat
  PROVE  TaskBudget(budget) \in Nat \ {0}
BY ScopeAssumption DEF TaskBudget, GreaterOf, LesserOf

\* A share is the quotient, at least one, and a piece of the remainder.
LEMMA ShareIs ==
  ASSUME NEW budget \in Nat, NEW n \in Nat \ {0}, NEW i \in Nat
  PROVE  /\ Share(budget, n, i) \in Nat
         /\ Share(budget, n, i)
              <= GreaterOf(1, TaskBudget(budget) \div n)
                   + (IF i <= TaskBudget(budget) % n THEN 1 ELSE 0)
<1> DEFINE b == TaskBudget(budget)
<1>1. b \in Nat /\ MaxBudget \in Nat
  BY BudgetType, ScopeAssumption
<1>2. b \div n \in Nat /\ b % n \in Nat
  <2> HIDE DEF b
  <2>1. QED
    BY <1>1, DivMod
<1> DEFINE q == b \div n
           m == b % n
<1>3. Share(budget, n, i)
        = LesserOf(MaxBudget, GreaterOf(1, q) + (IF i <= m THEN 1 ELSE 0))
  BY DEF Share
<1> HIDE DEF q, m
<1>4. q \in Nat /\ m \in Nat
  BY <1>2 DEF q, m
<1>5. /\ Share(budget, n, i) \in Nat
      /\ Share(budget, n, i) <= GreaterOf(1, q) + (IF i <= m THEN 1 ELSE 0)
  BY <1>1, <1>3, <1>4 DEF LesserOf, GreaterOf
<1>6. QED
  BY <1>5 DEF q, m

\* A search returns at most what it is limited to.
LEMMA HitsLimited ==
  ASSUME NEW d, NEW systems, NEW mode, NEW types, NEW limit \in Nat,
         NEW hits \in Hits(d, systems, mode, types, limit)
  PROVE  IsFiniteSet(hits) /\ Cardinality(hits) \in Nat /\ Cardinality(hits) <= limit
<1> DEFINE visible == Visible(d, systems, mode, types)
<1>1. IsFiniteSet(visible) /\ Cardinality(visible) \in Nat
  <2>1. visible \in SUBSET Chunks
    BY DEF Visible
  <2> HIDE DEF visible
  <2>2. QED
    BY <2>1, ScopeAssumption, FS_Subset, FS_CardinalityType
<1>2. \/ hits \in Matches(visible, limit)
      \/ hits \in Matches({c \in visible : c.kind = "log"}, limit)
      \/ hits \in Ranked(visible, limit)
  BY DEF Hits, LogMatches
<1> HIDE DEF visible
<1>3. hits \in SUBSET visible /\ Cardinality(hits) <= limit
  <2>1. CASE hits \in Matches(visible, limit) \/ hits \in Matches({c \in visible : c.kind = "log"}, limit)
    BY <2>1 DEF Matches, TermMatches
  <2>2. CASE hits \in Ranked(visible, limit)
    <3>1. hits \in SUBSET visible /\ Cardinality(hits) = LesserOf(limit, Cardinality(visible))
      BY <2>2 DEF Ranked, kSubset
    <3>2. QED
      BY <1>1, <3>1 DEF LesserOf
  <2>3. QED
    BY <1>2, <2>1, <2>2
<1>4. QED
  BY <1>1, <1>3, FS_Subset, FS_CardinalityType

\* The packages of a search hold its hits, each of them once.
LEMMA PackagesHold ==
  ASSUME NEW d, NEW hits, NEW best
  PROVE  UNION {p.refs : p \in Packages(d, hits, best)} = hits
<1>1. ASSUME NEW c \in UNION {p.refs : p \in Packages(d, hits, best)} PROVE c \in hits
  BY DEF Packages
<1>2. ASSUME NEW c \in hits PROVE c \in UNION {p.refs : p \in Packages(d, hits, best)}
  <2> DEFINE v == c.version
             p == [domain |-> d, version |-> v, refs |-> {h \in hits : h.version = v},
                   target |-> best[v].target]
  <2>1. v \in Versions(hits)
    BY DEF Versions
  <2>2. p \in Packages(d, hits, best)
    BY <2>1 DEF Packages
  <2>3. c \in p.refs
    OBVIOUS
  <2> HIDE DEF p
  <2>4. QED
    BY <2>2, <2>3
<1>3. QED
  BY <1>1, <1>2

-----------------------------------------------------------------------------
(* The shares of the tasks that returned, in closed form: of every one its   *)
(* quotient, and one piece for each of them among the first.                *)

Quotient(r) == GreaterOf(1, TaskBudget(request[r].budget) \div Len(selected[r]))
Remainder(r) == TaskBudget(request[r].budget) % Len(selected[r])
Returned(r) == {i \in DOMAIN task[r] : task[r][i] = "ok"}
First(r) == {i \in Returned(r) : i <= Remainder(r)}

BudgetOK(r) ==
    task[r] # <<>> =>
        /\ IsFiniteSet(Pieces(r))
        /\ Cardinality(Pieces(r))
             <= Quotient(r) * Cardinality(Returned(r)) + Cardinality(First(r))

LEMMA CorrelationIs ==
  ASSUME RequestsOK, NEW r \in Callers, task[r] # <<>>
  PROVE  /\ Len(selected[r]) \in Nat \ {0} /\ DOMAIN task[r] = 1..Len(selected[r])
         /\ request[r].budget \in Nat /\ TaskBudget(request[r].budget) \in Nat \ {0}
         /\ Quotient(r) \in Nat \ {0} /\ Remainder(r) \in Nat
         /\ IsFiniteSet(Returned(r)) /\ Cardinality(Returned(r)) \in Nat
         /\ IsFiniteSet(First(r)) /\ Cardinality(First(r)) \in Nat
<1>1. Len(selected[r]) \in Nat \ {0} /\ DOMAIN task[r] = 1..Len(selected[r])
  BY EmptySeq, LenProperties DEF RequestsOK, ShapeOK, PlanOK
<1>2. request[r].budget \in Nat
  BY RequestAssumption DEF RequestsOK, ShapeOK
<1>3. TaskBudget(request[r].budget) \in Nat \ {0}
  BY <1>2, BudgetType
<1>4. Quotient(r) \in Nat \ {0} /\ Remainder(r) \in Nat
  <2> DEFINE b == TaskBudget(request[r].budget)
             n == Len(selected[r])
             q == b \div n
             m == b % n
  <2>2. Quotient(r) = GreaterOf(1, q) /\ Remainder(r) = m
    BY DEF Quotient, Remainder
  <2>0. b \in Nat /\ n \in Nat \ {0}
    BY <1>1, <1>3
  <2> HIDE DEF b, n
  <2>1. q \in Nat /\ m \in Nat
    BY <2>0, DivMod
  <2> HIDE DEF q, m
  <2>3. QED
    BY <2>1, <2>2 DEF GreaterOf
<1>5. Returned(r) \in SUBSET (1..Len(selected[r])) /\ First(r) \in SUBSET Returned(r)
  BY <1>1 DEF Returned, First
<1>6. IsFiniteSet(1..Len(selected[r]))
  BY <1>1, FS_Interval
<1>7. IsFiniteSet(Returned(r)) /\ IsFiniteSet(First(r))
  BY <1>5, <1>6, FS_Subset
<1>8. QED
  BY <1>1, <1>2, <1>3, <1>4, <1>7, FS_CardinalityType

LEMMA MoreTimes ==
  ASSUME NEW a \in Nat, NEW b \in Nat, NEW c \in Nat, a <= b
  PROVE  c * a <= c * b /\ c * a \in Nat /\ c * (a + 1) = c * a + c
OBVIOUS

\* All shares together.
LEMMA SharesAddUp ==
  ASSUME RequestsOK, NEW r \in Callers, task[r] # <<>>, BudgetOK(r)
  PROVE  LET tasks == Len(selected[r])
             budget == TaskBudget(request[r].budget)
         IN  Cardinality(Pieces(r)) <= budget + (IF tasks <= budget THEN 0 ELSE tasks)
<1> DEFINE n == Len(selected[r])
           b == TaskBudget(request[r].budget)
           q == b \div n
           m == b % n
           x == Cardinality(Returned(r))
           y == Cardinality(First(r))
<1>1. /\ n \in Nat \ {0} /\ b \in Nat \ {0} /\ DOMAIN task[r] = 1..n
      /\ IsFiniteSet(Returned(r)) /\ x \in Nat
      /\ IsFiniteSet(First(r)) /\ y \in Nat
  BY CorrelationIs
<1>2. q \in Nat /\ m \in 0..(n - 1) /\ b = n * q + m
  <2> HIDE DEF n, b
  <2>1. QED
    BY <1>1, DivMod
<1>3. Quotient(r) = GreaterOf(1, q) /\ Remainder(r) = m
  BY DEF Quotient, Remainder
<1>4. x <= n
  <2>1. Returned(r) \in SUBSET (1..n)
    BY <1>1 DEF Returned
  <2>2. IsFiniteSet(1..n) /\ Cardinality(1..n) = n
    BY <1>1, CountTo
  <2> HIDE DEF n
  <2>3. QED
    BY <2>1, <2>2, FS_Subset
<1>5. y <= m
  <2>1. First(r) \in SUBSET (1..m)
    BY <1>1, <1>2, <1>3 DEF First, Returned
  <2>2. IsFiniteSet(1..m) /\ Cardinality(1..m) = m
    BY <1>2, CountTo
  <2> HIDE DEF m
  <2>3. QED
    BY <2>1, <2>2, FS_Subset
<1>6. IsFiniteSet(Pieces(r)) /\ Cardinality(Pieces(r)) <= GreaterOf(1, q) * x + y
  BY <1>3 DEF BudgetOK
<1>7. Cardinality(Pieces(r)) \in Nat
  BY <1>6, FS_CardinalityType
<1> HIDE DEF n, b, q, m, x, y
<1>8. CASE n <= b
  <2>1. q # 0
    <3>1. q = 0 => n * q = 0
      BY <1>1
    <3>2. QED
      BY <1>1, <1>2, <1>8, <3>1
  <2>2. GreaterOf(1, q) = q
    BY <1>2, <2>1 DEF GreaterOf
  <2>3. q * x <= q * n /\ q * x \in Nat
    BY <1>1, <1>2, <1>4, MoreTimes
  <2>4. q * n = n * q /\ q * n \in Nat
    BY <1>1, <1>2
  <2>5. Cardinality(Pieces(r)) <= b
    BY <1>1, <1>2, <1>5, <1>6, <1>7, <2>2, <2>3, <2>4
  <2>6. QED
    BY <1>1, <1>8, <2>5 DEF n, b
<1>9. CASE ~(n <= b)
  <2>1. q = 0
    <3>1. q # 0 => n * q >= n
      <4>1. ASSUME q # 0 PROVE n * 1 <= n * q
        BY <1>1, <1>2, <4>1, MoreTimes
      <4>2. QED
        BY <1>1, <1>2, <4>1
    <3>2. n * q \in Nat
      BY <1>1, <1>2
    <3>3. QED
      BY <1>1, <1>2, <1>9, <3>1, <3>2
  <2>2. GreaterOf(1, q) = 1 /\ n * q = 0
    BY <1>1, <2>1 DEF GreaterOf
  <2>3. Cardinality(Pieces(r)) <= n + m /\ m = b
    BY <1>1, <1>2, <1>4, <1>5, <1>6, <1>7, <2>2
  <2>4. QED
    BY <1>1, <1>9, <2>3 DEF n, b
<1>10. QED
  BY <1>8, <1>9

Same(q) ==
    /\ request' = request /\ selected'[q] = selected[q]
    /\ task'[q] = task[q] /\ evidence'[q] = evidence[q]

\* Nothing has returned.
Empty(r) == task[r] = <<>> \/ (Returned(r) = {} /\ evidence[r] = {})

LEMMA SameBudget ==
  ASSUME NEW q \in Callers, Same(q), BudgetOK(q)
  PROVE  BudgetOK(q)'
BY DEF Same, BudgetOK, Pieces, Quotient, Remainder, Returned, First

LEMMA QuotientType ==
  ASSUME NEW budget \in Nat, NEW n \in Nat \ {0}
  PROVE  GreaterOf(1, TaskBudget(budget) \div n) \in Nat
<1>1. TaskBudget(budget) \div n \in Nat
  BY BudgetType, DivMod
<1>2. \A a \in Nat : GreaterOf(1, a) \in Nat
  BY DEF GreaterOf
<1>3. QED
  BY <1>1, <1>2

LEMMA EmptyBudget ==
  ASSUME RequestsOK', NEW r \in Callers, Empty(r)'
  PROVE  BudgetOK(r)'
<1> SUFFICES ASSUME task'[r] # <<>>
             PROVE  /\ IsFiniteSet(Pieces(r)')
                    /\ Cardinality(Pieces(r)')
                         <= Quotient(r)' * Cardinality(Returned(r)') + Cardinality(First(r)')
  BY DEF BudgetOK
<1>1. Pieces(r)' = {} /\ Returned(r)' = {} /\ First(r)' = {}
  BY DEF Empty, Pieces, First
<1>2. IsFiniteSet({}) /\ Cardinality({}) = 0
  BY FS_EmptySet
<1>3. Quotient(r)' \in Nat
  <2>1. request'[r].budget \in Nat
    BY RequestAssumption DEF RequestsOK, ShapeOK
  <2>2. Len(selected'[r]) \in Nat \ {0}
    BY EmptySeq, LenProperties DEF RequestsOK, ShapeOK, PlanOK
  <2>3. QED
    BY <2>1, <2>2, QuotientType DEF Quotient
<1>4. QED
  BY <1>1, <1>2, <1>3

LEMMA DispatchFinds ==
  ASSUME RequestsOK, NEW r \in Callers, stage[r] \in {"new", "classifying"},
         NEW ids, Dispatch(r, ids) \/ Raise(r), UNCHANGED request
  PROVE  Empty(r)' /\ \A q \in Callers \ {r} : Same(q)
<1>1. task[r] = <<>> /\ evidence[r] = {}
  BY DEF RequestsOK, PlanOK
<1>2. CASE Raise(r)
  BY <1>1, <1>2 DEF Raise, Empty, Same
<1>3. CASE \E name : RunAgent(r, name)
  BY <1>1, <1>2, <1>3 DEF RunAgent, Raise, Empty, Same, RequestsOK, ShapeOK
<1>4. CASE Correlate(r, ids)
  <2> DEFINE s == Selection(ids, request[r].systems, request[r].components)
             waiting == [i \in DOMAIN s.ids |-> "waiting"]
  <2>1. \/ Raise(r)
        \/ /\ selected' = [selected EXCEPT ![r] = s.ids]
           /\ task' = [task EXCEPT ![r] = waiting]
           /\ UNCHANGED evidence
    BY <1>4 DEF Correlate
  <2> HIDE DEF s
  <2>2. CASE task' = [task EXCEPT ![r] = waiting] /\ UNCHANGED evidence
             /\ selected' = [selected EXCEPT ![r] = s.ids]
    <3>1. task'[r] = waiting /\ evidence'[r] = {}
      BY <1>1, <2>2 DEF RequestsOK, ShapeOK
    <3>2. Returned(r)' = {}
      BY <3>1 DEF Returned
    <3>3. \A q \in Callers \ {r} : Same(q)
      BY <2>2 DEF RequestsOK, ShapeOK, Same
    <3>4. QED
      BY <3>1, <3>2, <3>3 DEF Empty
  <2>3. QED
    BY <1>2, <2>1, <2>2
<1>5. QED
  BY <1>2, <1>3, <1>4 DEF Dispatch

\* What a step does to what has been found.
LEMMA AdvanceFinds ==
  ASSUME RequestsOK, NEW r \in Callers, Advance(r)
  PROVE  /\ \A q \in Callers \ {r} : Same(q)
         /\ Same(r) \/ Empty(r)' \/ Search(r)
<1>1. CASE Submit(r)
  <2>1. stage[r] = "new" /\ UNCHANGED request
        /\ (Raise(r) \/ \E ids : Dispatch(r, ids))
    BY <1>1 DEF Submit
  <2>2. QED
    BY <2>1, DispatchFinds
<1>2. CASE Classified(r)
  <2>1. stage[r] = "classifying" /\ UNCHANGED request
        /\ (Raise(r) \/ \E ids : Dispatch(r, ids))
    BY <1>2 DEF Classified
  <2>2. QED
    BY <2>1, DispatchFinds
<1>3. CASE UseTool(r)
  <2>1. task[r] = <<>>
    BY <1>3 DEF UseTool, RequestsOK, PlanOK
  <2>2. PICK new : evidence' = [evidence EXCEPT ![r] = new]
    BY <1>3 DEF UseTool
  <2>3. QED
    BY <1>3, <2>1, <2>2 DEF UseTool, Same, Empty, RequestsOK, ShapeOK
<1>4. CASE Classify(r) \/ Ask(r) \/ AgentEnds(r) \/ SummarizeLocally(r) \/ Summarize(r) \/ Summarized(r)
  BY <1>4 DEF Classify, Ask, AskModel, AgentEnds, SummarizeLocally, Summarize, Summarized, Same
<1>5. CASE Search(r)
  <2>1. PICK i \in DOMAIN task[r] : DelegateFails(r, i) \/ Delegate(r, i)
    BY <1>5 DEF Search
  <2>2. PICK outcome \in Outcomes : Settle(r, i, outcome) /\ UNCHANGED <<request, selected>>
    BY <2>1 DEF DelegateFails, Delegate, Outcomes
  <2>3. \A q \in Callers \ {r} : evidence'[q] = evidence[q]
    BY <2>1 DEF DelegateFails, Delegate, RequestsOK, ShapeOK
  <2>4. \A q \in Callers \ {r} : task'[q] = task[q]
    BY <2>2, SettleKeeps DEF RequestsOK
  <2>5. QED
    BY <1>5, <2>2, <2>3, <2>4 DEF Same
<1>6. QED
  BY <1>1, <1>2, <1>3, <1>4, <1>5 DEF Advance

LEMMA SearchBudget ==
  ASSUME RequestsOK, NEW r \in Callers, Search(r), BudgetOK(r)
  PROVE  BudgetOK(r)'
<1>1. PICK i \in DOMAIN task[r] : DelegateFails(r, i) \/ Delegate(r, i)
  BY DEF Search
<1>2. task[r] # <<>> /\ task[r] \in Seq(Outcomes)
  BY <1>1, SettleKeeps DEF DelegateFails, Delegate, RequestsOK, Outcomes, ShapeOK
<1>3. /\ Len(selected[r]) \in Nat \ {0} /\ DOMAIN task[r] = 1..Len(selected[r])
      /\ request[r].budget \in Nat /\ TaskBudget(request[r].budget) \in Nat \ {0}
      /\ Quotient(r) \in Nat \ {0} /\ Remainder(r) \in Nat
      /\ IsFiniteSet(Returned(r)) /\ Cardinality(Returned(r)) \in Nat
      /\ IsFiniteSet(First(r)) /\ Cardinality(First(r)) \in Nat
  BY <1>2, CorrelationIs
<1>4. /\ IsFiniteSet(Pieces(r)) /\ Cardinality(Pieces(r)) \in Nat
      /\ Cardinality(Pieces(r))
           <= Quotient(r) * Cardinality(Returned(r)) + Cardinality(First(r))
  BY <1>2, FS_CardinalityType DEF BudgetOK
<1>5. task[r][i] = "waiting" /\ UNCHANGED <<request, selected>>
  BY <1>1 DEF DelegateFails, Delegate
<1>6. Quotient(r)' = Quotient(r) /\ Remainder(r)' = Remainder(r)
  BY <1>5 DEF Quotient, Remainder
<1>7. CASE DelegateFails(r, i)
  <2>1. task'[r] = [task[r] EXCEPT ![i] = "failed"] /\ evidence' = evidence
    BY <1>7 DEF DelegateFails, Settle, RequestsOK, ShapeOK
  <2>2. Returned(r)' = Returned(r)
    BY <1>5, <2>1 DEF Returned
  <2>3. First(r)' = First(r)
    BY <1>6, <2>2 DEF First
  <2>4. Pieces(r)' = Pieces(r)
    BY <2>1 DEF Pieces
  <2>5. QED
    BY <1>4, <1>6, <2>2, <2>3, <2>4 DEF BudgetOK
<1>8. CASE Delegate(r, i)
  <2> DEFINE d == selected[r][i]
             systems == SystemsOf(request[r].systems, d)
             limit == Share(request[r].budget, Len(selected[r]), i)
             more == IF i <= Remainder(r) THEN 1 ELSE 0
  <2>1. task'[r] = [task[r] EXCEPT ![i] = "ok"]
    BY <1>8 DEF Delegate, Settle, RequestsOK, ShapeOK
  <2>2. PICK mode \in ModesFor(request[r].mode, request[r].types) :
          \E hits \in Hits(d, systems, mode, request[r].types, limit) :
          \E best \in BestOf(hits) :
            evidence' = [evidence EXCEPT ![r] = @ \cup Packages(d, hits, best)]
    BY <1>8 DEF Delegate
  <2>3. PICK hits \in Hits(d, systems, mode, request[r].types, limit) :
          \E best \in BestOf(hits) :
            evidence' = [evidence EXCEPT ![r] = @ \cup Packages(d, hits, best)]
    BY <2>2
  <2>4. PICK best \in BestOf(hits) :
            evidence' = [evidence EXCEPT ![r] = @ \cup Packages(d, hits, best)]
    BY <2>3
  <2>5. limit \in Nat /\ limit <= Quotient(r) + more
    <3>1. i \in Nat
      BY <1>1, <1>3
    <3>2. QED
      BY <1>3, <3>1, ShareIs DEF Quotient, Remainder
  <2>6. IsFiniteSet(hits) /\ Cardinality(hits) \in Nat /\ Cardinality(hits) <= limit
    <3> HIDE DEF d, systems, limit
    <3>1. QED
      BY <2>3, <2>5, HitsLimited
  <2>7. Pieces(r)' = Pieces(r) \cup hits
    <3>1. evidence'[r] = evidence[r] \cup Packages(d, hits, best)
      BY <2>4 DEF RequestsOK, ShapeOK
    <3>2. (UNION {p.refs : p \in Packages(d, hits, best)}) = hits
      BY PackagesHold
    <3> HIDE DEF d
    <3>3. QED
      BY <3>1, <3>2 DEF Pieces
  <2>8. /\ IsFiniteSet(Pieces(r)')
        /\ Cardinality(Pieces(r)') <= Cardinality(Pieces(r)) + Cardinality(hits)
    <3>1. /\ IsFiniteSet(Pieces(r) \cup hits)
          /\ Cardinality(Pieces(r) \cup hits)
               = Cardinality(Pieces(r)) + Cardinality(hits) - Cardinality(Pieces(r) \cap hits)
      BY <1>4, <2>6, FS_Union
    <3>2. Cardinality(Pieces(r) \cap hits) \in Nat
      <4>1. Pieces(r) \cap hits \in SUBSET hits
        OBVIOUS
      <4>2. QED
        BY <2>6, <4>1, FS_Subset, FS_CardinalityType
    <3>3. QED
      BY <1>4, <2>6, <2>7, <3>1, <3>2
  <2>9. Cardinality(Returned(r)') = Cardinality(Returned(r)) + 1
    <3>1. Returned(r)' = Returned(r) \cup {i} /\ i \notin Returned(r)
      BY <1>1, <1>5, <2>1 DEF Returned
    <3>2. QED
      BY <1>3, <3>1, FS_AddElement
  <2>10. Cardinality(First(r)') = Cardinality(First(r)) + more
    <3>1. Returned(r)' = Returned(r) \cup {i} /\ i \notin Returned(r)
      BY <1>1, <1>5, <2>1 DEF Returned
    <3>2. CASE i <= Remainder(r)
      <4>1. First(r)' = First(r) \cup {i} /\ i \notin First(r)
        BY <1>6, <3>1, <3>2 DEF First
      <4>2. QED
        BY <1>3, <3>2, <4>1, FS_AddElement
    <3>3. CASE ~(i <= Remainder(r))
      <4>1. First(r)' = First(r)
        BY <1>6, <3>1, <3>3 DEF First
      <4>2. QED
        BY <1>3, <3>3, <4>1
    <3>4. QED
      BY <3>2, <3>3
  <2>11. Quotient(r) * (Cardinality(Returned(r)) + 1)
           = Quotient(r) * Cardinality(Returned(r)) + Quotient(r)
         /\ Quotient(r) * Cardinality(Returned(r)) \in Nat
    BY <1>3, MoreTimes
  <2>12. Cardinality(Pieces(r)')
           <= Quotient(r) * (Cardinality(Returned(r)) + 1) + (Cardinality(First(r)) + more)
    <3> DEFINE before == Cardinality(Pieces(r))
               after == Cardinality(Pieces(r)')
               found == Cardinality(hits)
               times == Quotient(r) * Cardinality(Returned(r))
    <3>1. /\ more \in Nat /\ after \in Nat /\ before \in Nat /\ found \in Nat /\ times \in Nat
          /\ Quotient(r) \in Nat /\ Cardinality(First(r)) \in Nat /\ limit \in Nat
      BY <1>3, <1>4, <2>5, <2>6, <2>8, <2>11, FS_CardinalityType
    <3>2. /\ before <= times + Cardinality(First(r)) /\ after <= before + found
          /\ found <= limit /\ limit <= Quotient(r) + more
      BY <1>4, <2>5, <2>6, <2>8
    <3> HIDE DEF more, limit, before, after, found, times
    <3>3. after <= times + Quotient(r) + (Cardinality(First(r)) + more)
      BY <3>1, <3>2
    <3>4. QED
      BY <2>11, <3>3 DEF after, times
  <2>13. QED
    BY <1>6, <2>8, <2>9, <2>10, <2>12 DEF BudgetOK
<1>9. QED
  BY <1>1, <1>7, <1>8

\* A correlation of any number of tasks, over any evidence, returns no more
\* than its budget, except when the budget has no piece for each of them.
THEOREM BudgetIsKept == Spec => []BudgetKept
<1> DEFINE AllOK == \A r \in Callers : BudgetOK(r)
<1>1. Init => AllOK
  BY DEF Init, BudgetOK
<1>2. RequestsOK /\ RequestsOK' /\ AllOK /\ [Next]_vars => AllOK'
  <2> SUFFICES ASSUME RequestsOK, RequestsOK', AllOK, [Next]_vars, NEW q \in Callers
               PROVE  BudgetOK(q)'
    OBVIOUS
  <2>1. ASSUME NEW r \in Callers, Advance(r) PROVE BudgetOK(q)'
    BY <2>1, AdvanceFinds, SameBudget, EmptyBudget, SearchBudget
  <2>2. CASE UNCHANGED <<request, local>>
    <3>1. Same(q)
      BY <2>2 DEF local, Same
    <3>2. QED
      BY <3>1, SameBudget
  <2>3. QED
    BY <2>1, <2>2 DEF Next, CallSteps, vars
<1>3. RequestsOK /\ AllOK => BudgetKept
  BY SharesAddUp DEF BudgetKept, Correlated
<1>4. QED
  BY <1>1, <1>2, <1>3, RequestsAlways, PTL DEF Spec

-----------------------------------------------------------------------------
(* Requests come to an end.                                                *)

\* What a thread waits for at each stage: it starts no call before its last one
\* is over, and only an agent's streamed answer can be abandoned.
Attended(r) ==
    /\ stage[r] \in {"classifying", "summarizing"} =>
           call[r].at \in {"request", "returned", "failed", "raised"} /\ ~call[r].stream
    /\ stage[r] = "asking" => call[r].at # "idle"
    /\ stage[r] \notin {"classifying", "summarizing", "asking"} => call[r].at \in Ended
    /\ call[r].emitted => call[r].stream

CallsAttended == \A r \in Callers : Attended(r)

LEMMA StartRecord ==
  ASSUME GatewayTypeOK, NEW r \in Callers, NEW privacy, NEW fits, NEW stream,
         Start(r, privacy, fits, stream)
  PROVE  /\ call'[r].at \in {"request", "failed"}
         /\ call'[r].stream = stream /\ ~call'[r].emitted
         /\ \A q \in Callers \ {r} : call'[q] = call[q]
BY DEF Start, GatewayTypeOK

LEMMA ProgressAttended ==
  ASSUME GatewayTypeOK, NEW r \in Callers, Progress(r), call[r].emitted => call[r].stream
  PROVE  /\ call[r].at = "request"
         /\ call'[r].stream = call[r].stream /\ (call'[r].emitted => call'[r].stream)
         /\ call'[r].at \in {"request", "returned", "failed", "raised", "abandoned"}
         /\ call'[r].at = "abandoned" => call[r].stream
         /\ \A q \in Callers \ {r} : call'[q] = call[q]
<1>0. call \in [Callers -> Calls]
  BY DEF GatewayTypeOK
<1>1. ASSUME NEW retriable, NextAttempt(r, retriable)
      PROVE  /\ call'[r].stream = call[r].stream /\ call'[r].emitted = call[r].emitted
             /\ call'[r].at \in {"request", "failed"}
             /\ \A q \in Callers \ {r} : call'[q] = call[q]
  BY <1>0, <1>1 DEF NextAttempt, Contact, End, Calls
<1>2. CASE (\E retriable \in BOOLEAN : Fail(r, retriable)) \/ AnswerUnusable(r)
  BY <1>1, <1>2 DEF Fail, AnswerUnusable
<1>3. CASE Chunk(r)
  BY <1>0, <1>3 DEF Chunk, Calls
<1>4. CASE Succeed(r) \/ Done(r) \/ Exhausted(r) \/ Abandon(r) \/ ErrorUnread(r)
  BY <1>0, <1>4 DEF Succeed, Done, Exhausted, Abandon, ErrorUnread, End, Calls
<1>5. QED
  BY <1>2, <1>3, <1>4 DEF Progress

\* How far a request is, at a given number of tool turns.
Rank(s) ==
    CASE s = "new" -> 0
      [] s = "classifying" -> 1
      [] s = "ready" -> 2
      [] s = "asking" -> 3
      [] s = "delegating" -> 4
      [] s = "summarizing" -> 5
      [] OTHER -> 6

Waiting(r) == {i \in DOMAIN task[r] : task[r][i] = "waiting"}

\* A step further: one more tool turn of the bounded number, a later stage, a
\* search less to wait for, or the next step of the model call it waits for.
Further(r) ==
    \/ turns[r] < turns'[r]
    \/ /\ turns'[r] = turns[r]
       /\ \/ Rank(stage[r]) < Rank(stage'[r])
          \/ /\ stage'[r] = stage[r]
             /\ \/ Waiting(r)' \subseteq Waiting(r) /\ Waiting(r)' # Waiting(r)
                \/ task'[r] = task[r] /\ call[r].at = "request" /\ Forward(r)

Rests(r) == stage'[r] = stage[r] /\ task'[r] = task[r] /\ turns'[r] = turns[r] /\ call'[r] = call[r]

RequestsMove == [][\A r \in Callers : Rests(r) \/ Further(r)]_vars

LEMMA RaiseMoves ==
  ASSUME ShapeOK, NEW r \in Callers, Raise(r), stage[r] \in {"new", "classifying"}
  PROVE  Further(r) /\ stage'[r] = "raised"
BY DEF ShapeOK, Raise, Goto, Further, Rank

LEMMA DispatchMoves ==
  ASSUME ShapeOK, NEW r \in Callers, NEW ids, Dispatch(r, ids), stage[r] \in {"new", "classifying"}
  PROVE  Further(r) /\ stage'[r] \in {"raised", "ready", "delegating"}
<1>1. CASE RunAgent(r, ids[1])
  BY <1>1, RaiseMoves DEF RunAgent, ShapeOK, Goto, Further, Rank
<1>2. CASE Correlate(r, ids)
  BY <1>2, RaiseMoves DEF Correlate, ShapeOK, Goto, Further, Rank
<1>3. QED
  BY <1>1, <1>2 DEF Dispatch

LEMMA AskMoves ==
  ASSUME ShapeOK, GatewayTypeOK, NEW r \in Callers, NEW privacy, NEW fits, NEW stream, NEW next,
         AskModel(r, privacy, fits, stream, next), Rank(stage[r]) < Rank(next),
         next = "asking" \/ (next \in {"classifying", "summarizing"} /\ ~stream)
  PROVE  Further(r) /\ Attended(r)'
<1>1. stage'[r] = next /\ turns'[r] = turns[r] /\ Start(r, privacy, fits, stream)
  BY DEF AskModel, Goto, ShapeOK
<1>2. Further(r)
  BY <1>1 DEF Further
<1>3. call'[r].at \in {"request", "failed"} /\ call'[r].stream = stream /\ ~call'[r].emitted
  BY <1>1, StartRecord
<1>4. Attended(r)'
  BY <1>1, <1>3 DEF Attended
<1>5. QED
  BY <1>2, <1>4

LEMMA AdvanceMoves ==
  ASSUME RequestsOK, GatewayTypeOK, NEW r \in Callers, Attended(r), Advance(r)
  PROVE  Further(r) /\ Attended(r)'
<1>0. ShapeOK
  BY DEF RequestsOK
<1>1. CASE Submit(r)
  BY <1>0, <1>1, RaiseMoves, DispatchMoves DEF Submit, Attended, gateway
<1>2. CASE Classify(r)
  <2>1. PICK fits \in BOOLEAN : AskModel(r, request[r].privacy, fits, FALSE, "classifying")
    BY <1>2 DEF Classify
  <2>2. stage[r] = "new" /\ Rank("new") < Rank("classifying")
    BY <1>2 DEF Classify, Rank
  <2>3. QED
    BY <1>0, <2>1, <2>2, AskMoves
<1>3. CASE Classified(r)
  BY <1>0, <1>3, RaiseMoves, DispatchMoves DEF Classified, Attended, gateway, Ended
<1>4. CASE Ask(r)
  BY <1>0, <1>4, AskMoves DEF Ask, Rank
<1>5. CASE UseTool(r)
  <2>1. turns[r] \in Nat
    BY <1>0, RequestAssumption DEF ShapeOK
  <2>2. turns'[r] = turns[r] + 1 /\ stage'[r] = "ready" /\ call' = call /\ call[r].at = "returned"
    BY <1>0, <1>5 DEF UseTool, ShapeOK, Goto, gateway
  <2>3. QED
    BY <2>1, <2>2 DEF Further, Attended, Ended
<1>6. CASE AgentEnds(r)
  <2>1. /\ stage[r] = "asking" /\ stage'[r] \in {"answered", "raised"} /\ turns' = turns
        /\ call' = call /\ call[r].at \in Ended
    BY <1>0, <1>6 DEF AgentEnds, ShapeOK, Goto, gateway, Ended
  <2>2. QED
    BY <2>1 DEF Further, Attended, Rank
<1>7. CASE Search(r)
  <2>1. PICK i \in DOMAIN task[r] : DelegateFails(r, i) \/ Delegate(r, i)
    BY <1>7 DEF Search
  <2>2. PICK outcome \in {"ok", "failed"} : task' = [task EXCEPT ![r][i] = outcome]
    BY <2>1 DEF DelegateFails, Delegate, Settle
  <2>3. UNCHANGED <<stage, turns, call>> /\ task[r][i] = "waiting"
    BY <2>1 DEF DelegateFails, Delegate, gateway
  <2>4. task'[r] = [task[r] EXCEPT ![i] = outcome]
    BY <1>0, <2>2 DEF ShapeOK
  <2>5. DOMAIN task'[r] = DOMAIN task[r] /\ task'[r][i] # "waiting"
        /\ \A k \in DOMAIN task[r] \ {i} : task'[r][k] = task[r][k]
    BY <2>2, <2>4
  <2>6. i \in Waiting(r) /\ i \notin Waiting(r)' /\ Waiting(r)' \subseteq Waiting(r)
    BY <2>3, <2>5 DEF Waiting
  <2>7. QED
    BY <2>3, <2>6 DEF Further, Attended
<1>8. CASE SummarizeLocally(r)
  <2>1. stage[r] = "delegating" /\ stage'[r] = "answered" /\ turns' = turns /\ call' = call
    BY <1>0, <1>8 DEF SummarizeLocally, ShapeOK, Goto, gateway
  <2>2. QED
    BY <2>1 DEF Further, Attended, Rank
<1>9. CASE Summarize(r)
  <2>1. PICK fits \in BOOLEAN : AskModel(r, request[r].privacy, fits, FALSE, "summarizing")
    BY <1>9 DEF Summarize
  <2>2. stage[r] = "delegating" /\ Rank("delegating") < Rank("summarizing")
    BY <1>9 DEF Summarize, Rank
  <2>3. QED
    BY <1>0, <2>1, <2>2, AskMoves
<1>10. CASE Summarized(r)
  <2>1. stage[r] = "summarizing" /\ stage'[r] = "answered" /\ turns' = turns /\ call' = call
        /\ call[r].at \in Ended
    BY <1>0, <1>10 DEF Summarized, ShapeOK, Goto, gateway, Ended
  <2>2. QED
    BY <2>1 DEF Further, Attended, Rank
<1>11. QED
  BY <1>1, <1>2, <1>3, <1>4, <1>5, <1>6, <1>7, <1>8, <1>9, <1>10 DEF Advance

LEMMA AdvanceAlone ==
  ASSUME RequestsOK, GatewayTypeOK, NEW r \in Callers, Advance(r), NEW q \in Callers, q # r
  PROVE  Rests(q)
<1>1. ShapeOK
  BY DEF RequestsOK
<1>2. call'[q] = call[q]
  <2>1. CASE UNCHANGED gateway
    BY <2>1 DEF gateway
  <2>2. CASE Asks(r)
    BY <2>2, StartRecord DEF Asks
  <2>3. QED
    BY <2>1, <2>2, AdvanceStep
<1>3. stage'[q] = stage[q] /\ task'[q] = task[q] /\ turns'[q] = turns[q]
  BY <1>1 DEF Advance, Submit, Classify, Classified, Ask, UseTool, AgentEnds, Search, Delegate,
     DelegateFails, Settle, SummarizeLocally, Summarize, Summarized, AskModel, Dispatch, RunAgent,
     Correlate, Raise, Goto, ShapeOK
<1>4. QED
  BY <1>2, <1>3 DEF Rests

LEMMA RequestsMoveNext ==
  ASSUME RequestsOK, GatewayTypeOK, CallsAttended, [Next]_vars, NEW r \in Callers
  PROVE  (Rests(r) \/ Further(r)) /\ Attended(r)'
<1>0. Attended(r)
  BY DEF CallsAttended
<1>1. ASSUME Rests(r) PROVE Attended(r)'
  BY <1>0, <1>1 DEF Rests, Attended
<1>2. CASE Advance(r)
  BY <1>0, <1>2, AdvanceMoves
<1>3. CASE CallSteps(r)
  <2>1. Progress(r) /\ UNCHANGED <<stage, task, turns>>
    BY <1>3 DEF CallSteps, local
  <2>2. Forward(r) /\ call[r].at = "request"
    BY <1>0, <2>1, ProgressForward, ProgressAttended DEF Attended
  <2>3. Attended(r)'
    BY <1>0, <2>1, ProgressAttended DEF Attended, Ended
  <2>4. QED
    BY <2>1, <2>2, <2>3 DEF Further
<1>4. ASSUME NEW q \in Callers, q # r, Advance(q) \/ CallSteps(q) PROVE Rests(r)
  <2>1. CASE Advance(q)
    BY <1>4, <2>1, AdvanceAlone
  <2>2. CASE CallSteps(q)
    <3>1. Attended(q)
      BY DEF CallsAttended
    <3>2. Progress(q) /\ UNCHANGED <<stage, task, turns>>
      BY <2>2 DEF CallSteps, local
    <3>3. call'[r] = call[r]
      BY <1>4, <3>1, <3>2, ProgressAttended DEF Attended
    <3>4. QED
      BY <3>2, <3>3 DEF Rests
  <2>3. QED
    BY <1>4, <2>1, <2>2
<1>5. CASE \/ (\E healthy \in BOOLEAN : HealthCheck(healthy)) /\ UNCHANGED <<request, local>>
           \/ Tick /\ UNCHANGED <<request, local>>
           \/ UNCHANGED vars
  <2>1. UNCHANGED <<stage, task, turns, call>>
    BY <1>5 DEF HealthCheck, Tick, local, vars, gateway
  <2>2. QED
    BY <1>1, <2>1 DEF Rests
<1>6. QED
  BY <1>1, <1>2, <1>3, <1>4, <1>5 DEF Next

\* Whatever the providers and the other callers do, a request never waits for a
\* call that is over or was never made, and each step of its thread takes it
\* further in an order that is finite: what RequestEnds says of two requests
\* has a measure for all of them.
THEOREM RequestsMoveOn == Spec => []CallsAttended /\ RequestsMove
<1>1. Init => CallsAttended
  BY DEF Init, GatewayInit, CallsAttended, Attended, Idle, Ended
<1>2. RequestsOK /\ GatewayTypeOK /\ CallsAttended /\ [Next]_vars => CallsAttended'
  BY RequestsMoveNext DEF CallsAttended
<1>3. RequestsOK /\ GatewayTypeOK /\ CallsAttended /\ [Next]_vars
        => [\A r \in Callers : Rests(r) \/ Further(r)]_vars
  BY RequestsMoveNext
<1>4. Spec => []GatewayTypeOK
  BY GatewayShared, TypeCorrect, PTL
<1>5. QED
  BY <1>1, <1>2, <1>3, <1>4, RequestsAlways, PTL DEF Spec, RequestsMove
=============================================================================
