-------------------------- MODULE CacheProxyProofs --------------------------
(***************************************************************************)
(* Safety of CacheProxy for any number of requests, keys, files, versions  *)
(* and channels.  The theorems of SingleFlight are used as they stand: the *)
(* proxy drives single-flight only through its actions (UsesSingleFlight), *)
(* so that each of its invariants holds in the composition.                *)
(***************************************************************************)
EXTENDS CacheProxy, TLAPS

SFP == INSTANCE SingleFlightProofs WITH
        Caller <- Request, Outcome <- KeyOutcome, Abandonable <- {}

\* What SingleFlight assumes of its constants holds of what the proxy gives it.
LEMMA FlightConstants == SFP!SingleFlightAssumption
BY CacheProxyAssumption DEF SFP!SingleFlightAssumption, KeyOutcome, Payload

\* Every step of the proxy is a step of single-flight or leaves it alone.
LEMMA FlightStepOrStutter ==
    ASSUME ProxyTypeOK, SFP!SFTypeOK, [Next]_vars
    PROVE  [SFP!SFNext]_(SFP!sfVars)
<1>. USE DEF SFP!SFNext, SFP!sfVars
<1>1. ASSUME NEW f \in File, Write(f)
      PROVE  [SFP!SFNext]_(SFP!sfVars)
  BY <1>1 DEF Write, sfVars
<1>2. ASSUME NEW f \in File, Commit(f)
      PROVE  [SFP!SFNext]_(SFP!sfVars)
  BY <1>2 DEF Commit, sfVars
<1>3. ASSUME NEW f \in File, FlagAges(f)
      PROVE  [SFP!SFNext]_(SFP!sfVars)
  BY <1>3 DEF FlagAges, sfVars
<1>4. ASSUME NEW k \in Key, Expire(k)
      PROVE  [SFP!SFNext]_(SFP!sfVars)
  BY <1>4 DEF Expire, sfVars
<1>5. ASSUME NEW r \in Request, DeadlinePasses(r)
      PROVE  [SFP!SFNext]_(SFP!sfVars)
  BY <1>5 DEF DeadlinePasses, sfVars
<1>6. ASSUME FreezeOrThaw
      PROVE  [SFP!SFNext]_(SFP!sfVars)
  BY <1>6 DEF FreezeOrThaw, sfVars
<1>7. ASSUME NEW f \in File, MarkDirty(f)
      PROVE  [SFP!SFNext]_(SFP!sfVars)
  BY <1>7 DEF MarkDirty, sfVars
<1>8. ASSUME NEW f \in File, InvalidateFiles(f)
      PROVE  [SFP!SFNext]_(SFP!sfVars)
  BY <1>8 DEF InvalidateFiles, sfVars
<1>9. ASSUME NEW S \in Prefixes, InvalidateWhere(S)
      PROVE  [SFP!SFNext]_(SFP!sfVars)
  BY <1>9 DEF InvalidateWhere, sfVars
<1>10. ASSUME Clear
      PROVE  [SFP!SFNext]_(SFP!sfVars)
  BY <1>10 DEF Clear, sfVars
<1>11. ASSUME EvictTick
      PROVE  [SFP!SFNext]_(SFP!sfVars)
  BY <1>11 DEF EvictTick, sfVars
<1>12. ASSUME NEW r \in Request, NEW k \in Key, Begin(r, k)
      PROVE  [SFP!SFNext]_(SFP!sfVars)
  BY <1>12 DEF Begin, sfVars
<1>13. ASSUME NEW r \in Request, ForwardNoCache(r)
      PROVE  [SFP!SFNext]_(SFP!sfVars)
  BY <1>13 DEF ForwardNoCache, sfVars
<1>14. ASSUME NEW r \in Request, LookupFinds(r)
      PROVE  [SFP!SFNext]_(SFP!sfVars)
  BY <1>14 DEF LookupFinds, sfVars
<1>15. ASSUME NEW r \in Request, LookupMisses(r)
      PROVE  [SFP!SFNext]_(SFP!sfVars)
  BY <1>15 DEF LookupMisses, sfVars
<1>16. ASSUME NEW r \in Request, NEW f \in File, Scan(r, f)
      PROVE  [SFP!SFNext]_(SFP!sfVars)
  BY <1>16 DEF Scan, sfVars
<1>17. ASSUME NEW r \in Request, Hit(r)
      PROVE  [SFP!SFNext]_(SFP!sfVars)
  BY <1>17 DEF Hit, sfVars
<1>18. ASSUME NEW r \in Request, Forward(r)
      PROVE  [SFP!SFNext]_(SFP!sfVars)
  BY <1>18 DEF Forward, ProxyTypeOK, RequestTypeOK, RequestOK, SF!Call, SFP!Call
<1>19. ASSUME NEW r \in Request, Flight(r)
      PROVE  [SFP!SFNext]_(SFP!sfVars)
  BY <1>19 DEF Flight, SF!FlightStep, SFP!FlightStep, SF!Join, SFP!Join, SF!Elect, SFP!Elect,
     SF!FreeChannels, SFP!FreeChannels, SF!Publish, SFP!Publish, SF!Served, SFP!Served,
     SF!Waits, SFP!Waits, SF!Release, SFP!Release, SF!RecvClosed, SFP!RecvClosed,
     SF!HasSender, SFP!HasSender, SF!Leads, SFP!Leads, SF!LeadStages, SFP!LeadStages
<1>20. ASSUME NEW r \in Request, BackendAnswers(r)
      PROVE  [SFP!SFNext]_(SFP!sfVars)
  <2>1. PICK o : SF!Finish(r, o)
    BY <1>20 DEF BackendAnswers
  <2>2. wants[r] \in Key
    BY <1>20 DEF BackendAnswers, SFP!SFTypeOK
  <2>3. o \in SFP!Answers
    BY <2>1, <2>2 DEF SF!Finish, SFP!Answers
  <2>. QED
    BY <2>1, <2>3 DEF SF!Finish, SFP!Finish
<1>21. ASSUME NEW r \in Request, Take(r)
      PROVE  [SFP!SFNext]_(SFP!sfVars)
  BY <1>21 DEF Take, SF!Return, SFP!Return
<1>22. ASSUME NEW r \in Request, NEW f \in File, Compare(r, f)
      PROVE  [SFP!SFNext]_(SFP!sfVars)
  BY <1>22 DEF Compare, sfVars
<1>23. ASSUME NEW r \in Request, Associate(r)
      PROVE  [SFP!SFNext]_(SFP!sfVars)
  BY <1>23 DEF Associate, sfVars
<1>24. ASSUME NEW r \in Request, Insert(r)
      PROVE  [SFP!SFNext]_(SFP!sfVars)
  BY <1>24 DEF Insert, sfVars
<1>25. ASSUME NEW r \in Request, NEW f \in File, ClearFlag(r, f)
      PROVE  [SFP!SFNext]_(SFP!sfVars)
  BY <1>25 DEF ClearFlag, sfVars
<1>26. CASE UNCHANGED vars
  BY <1>26 DEF vars, sfVars
<1>. QED
  BY <1>1, <1>2, <1>3, <1>4, <1>5, <1>6, <1>7, <1>8, <1>9, <1>10, <1>11, <1>12, <1>13, <1>14, <1>15, <1>16, <1>17, <1>18, <1>19, <1>20, <1>21, <1>22, <1>23, <1>24, <1>25, <1>26
     DEF Next, RequestStep

\* A request that is done leaves the others as they are.
LEMMA DoneTypes ==
    ASSUME RequestTypeOK, NEW r \in Request, Done(r), stage'[r] = "idle",
           \A q \in Request \ {r} : stage'[q] = stage[q] /\ wants'[q] = wants[q]
    PROVE  RequestTypeOK'
<1>1. \A q \in Request \ {r} : RequestOK(q)'
  BY DEF RequestTypeOK, RequestOK, Done, Deps
<1>2. RequestOK(r)'
  BY CacheProxyAssumption DEF RequestTypeOK, RequestOK, Done, Deps
<1>. QED
  BY <1>1, <1>2 DEF RequestTypeOK, Done, PCs

\* Every step keeps the type invariant.
LEMMA ProxyTypeStep ==
    ASSUME ProxyTypeOK, SFP!SFTypeOK, [Next]_vars
    PROVE  ProxyTypeOK'
<1>. USE CacheProxyAssumption DEF ProxyTypeOK
<1>1. ASSUME NEW f \in File, Write(f)
      PROVE  ProxyTypeOK'
  <2>1. WorldTypeOK'
    <3>1. disk[f] + 1 \in Version /\ disk[f] < disk[f] + 1
      <4>1. disk[f] \in Version
        BY DEF WorldTypeOK
      <4>2. MaxVersion \in Nat /\ disk[f] < MaxVersion
        BY <1>1 DEF Write
      <4>. QED
        BY <4>1, <4>2 DEF Version
    <3>2. disk' \in [File -> Version] /\ index' = index
      BY <1>1, <3>1 DEF Write, WorldTypeOK
    <3>3. \A g \in File : index[g] <= disk'[g]
      BY <1>1, <3>1 DEF Write, WorldTypeOK, Version
    <3>. QED
      BY <3>2, <3>3 DEF WorldTypeOK
  <2>2. StoreTypeOK' /\ FlagTypeOK' /\ RequestTypeOK'
    BY <1>1 DEF Write, StoreTypeOK, FlagTypeOK, RequestTypeOK,
         storeVars, flagVars, reqVars, sfVars, RequestOK
  <2>. QED
    BY <2>1, <2>2
<1>2. ASSUME NEW f \in File, Commit(f)
      PROVE  ProxyTypeOK'
  <2>1. WorldTypeOK'
    <3>1. PICK v \in index[f] + 1 .. disk[f] : index' = [index EXCEPT ![f] = v]
      BY <1>2 DEF Commit
    <3>2. v \in Version /\ v <= disk[f]
      <4>1. disk[f] \in Version /\ index[f] \in Version
        BY DEF WorldTypeOK
      <4>2. MaxVersion \in Nat
        OBVIOUS
      <4>. QED
        BY <3>1, <4>1, <4>2 DEF Version
    <3>3. index' \in [File -> Version] /\ disk' = disk
      BY <1>2, <3>1, <3>2 DEF Commit, WorldTypeOK
    <3>4. \A g \in File : index'[g] <= disk[g]
      BY <3>1, <3>2 DEF WorldTypeOK
    <3>. QED
      BY <3>3, <3>4 DEF WorldTypeOK
  <2>2. StoreTypeOK' /\ FlagTypeOK' /\ RequestTypeOK'
    BY <1>2 DEF Commit, StoreTypeOK, FlagTypeOK, RequestTypeOK,
         storeVars, flagVars, reqVars, sfVars, RequestOK
  <2>. QED
    BY <2>1, <2>2
<1>3. ASSUME NEW f \in File, FlagAges(f)
      PROVE  ProxyTypeOK'
  <2>1. FlagTypeOK'
    BY <1>3 DEF FlagAges, FlagTypeOK
  <2>2. WorldTypeOK' /\ StoreTypeOK' /\ RequestTypeOK'
    BY <1>3 DEF FlagAges, WorldTypeOK, StoreTypeOK, RequestTypeOK,
         worldVars, storeVars, reqVars, sfVars, RequestOK
  <2>. QED
    BY <2>1, <2>2
<1>4. ASSUME NEW k \in Key, Expire(k)
      PROVE  ProxyTypeOK'
  <2>1. StoreTypeOK'
    BY <1>4 DEF Expire, StoreTypeOK, Live
  <2>2. WorldTypeOK' /\ FlagTypeOK' /\ RequestTypeOK'
    BY <1>4 DEF Expire, WorldTypeOK, FlagTypeOK, RequestTypeOK,
         worldVars, flagVars, reqVars, sfVars, RequestOK
  <2>. QED
    BY <2>1, <2>2
<1>5. ASSUME NEW r \in Request, DeadlinePasses(r)
      PROVE  ProxyTypeOK'
  <2>1. RequestTypeOK'
    BY <1>5 DEF DeadlinePasses, RequestTypeOK, RequestOK, sfVars
  <2>2. WorldTypeOK' /\ StoreTypeOK' /\ FlagTypeOK'
    BY <1>5 DEF DeadlinePasses, WorldTypeOK, StoreTypeOK, FlagTypeOK,
         worldVars, storeVars, flagVars, sfVars
  <2>. QED
    BY <2>1, <2>2
<1>6. ASSUME FreezeOrThaw
      PROVE  ProxyTypeOK'
  <2>1. FlagTypeOK'
    BY <1>6 DEF FreezeOrThaw, FlagTypeOK, flagVars
  <2>2. WorldTypeOK' /\ StoreTypeOK' /\ RequestTypeOK'
    BY <1>6 DEF FreezeOrThaw, WorldTypeOK, StoreTypeOK, RequestTypeOK,
         worldVars, storeVars, reqVars, sfVars, RequestOK
  <2>. QED
    BY <2>1, <2>2
<1>7. ASSUME NEW f \in File, MarkDirty(f)
      PROVE  ProxyTypeOK'
  <2>1. FlagTypeOK'
    BY <1>7 DEF MarkDirty, FlagTypeOK, Version
  <2>2. WorldTypeOK' /\ StoreTypeOK' /\ RequestTypeOK'
    BY <1>7 DEF MarkDirty, WorldTypeOK, StoreTypeOK, RequestTypeOK,
         worldVars, storeVars, reqVars, sfVars, RequestOK
  <2>. QED
    BY <2>1, <2>2
<1>8. ASSUME NEW f \in File, InvalidateFiles(f)
      PROVE  ProxyTypeOK'
  <2>1. StoreTypeOK'
    BY <1>8 DEF InvalidateFiles, StoreTypeOK, RemoveEntries, Unlinked
  <2>2. WorldTypeOK' /\ FlagTypeOK' /\ RequestTypeOK'
    BY <1>8 DEF InvalidateFiles, WorldTypeOK, FlagTypeOK, RequestTypeOK,
         worldVars, flagVars, reqVars, sfVars, RequestOK
  <2>. QED
    BY <2>1, <2>2
<1>9. ASSUME NEW S \in Prefixes, InvalidateWhere(S)
      PROVE  ProxyTypeOK'
  <2>1. StoreTypeOK'
    BY <1>9 DEF InvalidateWhere, StoreTypeOK, RemoveEntries, Unlinked
  <2>2. WorldTypeOK' /\ FlagTypeOK' /\ RequestTypeOK'
    BY <1>9 DEF InvalidateWhere, WorldTypeOK, FlagTypeOK, RequestTypeOK,
         worldVars, flagVars, reqVars, sfVars, RequestOK
  <2>. QED
    BY <2>1, <2>2
<1>10. ASSUME Clear
      PROVE  ProxyTypeOK'
  <2>1. StoreTypeOK'
    BY <1>10 DEF Clear, StoreTypeOK, RemoveEntries, Unlinked
  <2>2. WorldTypeOK' /\ FlagTypeOK' /\ RequestTypeOK'
    BY <1>10 DEF Clear, WorldTypeOK, FlagTypeOK, RequestTypeOK,
         worldVars, flagVars, reqVars, sfVars, RequestOK
  <2>. QED
    BY <2>1, <2>2
<1>11. ASSUME EvictTick
      PROVE  ProxyTypeOK'
  <2>1. StoreTypeOK'
    BY <1>11 DEF EvictTick, StoreTypeOK, RemoveEntries, Unlinked
  <2>2. FlagTypeOK'
    BY <1>11 DEF EvictTick, FlagTypeOK
  <2>3. WorldTypeOK' /\ RequestTypeOK'
    BY <1>11 DEF EvictTick, WorldTypeOK, RequestTypeOK,
         worldVars, reqVars, sfVars, RequestOK
  <2>. QED
    BY <2>1, <2>2, <2>3
<1>12. ASSUME NEW r \in Request, NEW k \in Key, Begin(r, k)
      PROVE  ProxyTypeOK'
  <2>1. RequestTypeOK'
    BY <1>12 DEF Begin, RequestTypeOK, RequestOK, PCs, sfVars
  <2>2. WorldTypeOK' /\ StoreTypeOK' /\ FlagTypeOK'
    BY <1>12 DEF Begin, WorldTypeOK, StoreTypeOK, FlagTypeOK,
         worldVars, storeVars, flagVars, sfVars
  <2>. QED
    BY <2>1, <2>2
<1>13. ASSUME NEW r \in Request, ForwardNoCache(r)
      PROVE  ProxyTypeOK'
  <2>1. RequestTypeOK'
    BY <1>13 DEF ForwardNoCache, RequestTypeOK, RequestOK, Done, PCs, sfVars
  <2>2. WorldTypeOK' /\ StoreTypeOK' /\ FlagTypeOK'
    BY <1>13 DEF ForwardNoCache, WorldTypeOK, StoreTypeOK, FlagTypeOK,
         worldVars, storeVars, flagVars, sfVars
  <2>. QED
    BY <2>1, <2>2
<1>14. ASSUME NEW r \in Request, LookupFinds(r)
      PROVE  ProxyTypeOK'
  <2>1. RequestTypeOK'
    BY <1>14 DEF LookupFinds, RequestTypeOK, RequestOK, Live, Deps, PCs, sfVars, StoreTypeOK
  <2>2. WorldTypeOK' /\ StoreTypeOK' /\ FlagTypeOK'
    BY <1>14 DEF LookupFinds, WorldTypeOK, StoreTypeOK, FlagTypeOK,
         worldVars, storeVars, flagVars, sfVars
  <2>. QED
    BY <2>1, <2>2
<1>15. ASSUME NEW r \in Request, LookupMisses(r)
      PROVE  ProxyTypeOK'
  <2>1. StoreTypeOK'
    BY <1>15 DEF LookupMisses, StoreTypeOK, RemoveEntries
  <2>2. RequestTypeOK'
    BY <1>15 DEF LookupMisses, RequestTypeOK, RequestOK, ToFlight, PCs, sfVars
  <2>3. WorldTypeOK' /\ FlagTypeOK'
    BY <1>15 DEF LookupMisses, WorldTypeOK, FlagTypeOK,
         worldVars, flagVars, sfVars
  <2>. QED
    BY <2>1, <2>2, <2>3
<1>16. ASSUME NEW r \in Request, NEW f \in File, Scan(r, f)
      PROVE  ProxyTypeOK'
  <2>1. RequestTypeOK'
    BY <1>16 DEF Scan, RequestTypeOK, RequestOK, ToFlight, PCs, sfVars
  <2>2. WorldTypeOK' /\ StoreTypeOK' /\ FlagTypeOK'
    BY <1>16 DEF Scan, WorldTypeOK, StoreTypeOK, FlagTypeOK,
         worldVars, storeVars, flagVars, sfVars
  <2>. QED
    BY <2>1, <2>2
<1>17. ASSUME NEW r \in Request, Hit(r)
      PROVE  ProxyTypeOK'
  <2>1. RequestTypeOK'
    BY <1>17 DEF Hit, RequestTypeOK, RequestOK, Done, PCs, sfVars
  <2>2. WorldTypeOK' /\ StoreTypeOK' /\ FlagTypeOK'
    BY <1>17 DEF Hit, WorldTypeOK, StoreTypeOK, FlagTypeOK,
         worldVars, storeVars, flagVars, sfVars
  <2>. QED
    BY <2>1, <2>2
<1>18. ASSUME NEW r \in Request, Forward(r)
      PROVE  ProxyTypeOK'
  <2>1. RequestTypeOK'
    BY <1>18 DEF Forward, RequestTypeOK, RequestOK, SF!Call, SFP!SFTypeOK, reqVars
  <2>2. WorldTypeOK' /\ StoreTypeOK' /\ FlagTypeOK'
    BY <1>18 DEF Forward, WorldTypeOK, StoreTypeOK, FlagTypeOK,
         worldVars, storeVars, flagVars, sfVars
  <2>. QED
    BY <2>1, <2>2
<1>19. ASSUME NEW r \in Request, Flight(r)
      PROVE  ProxyTypeOK'
  <2>1. RequestTypeOK'
    BY <1>19 DEF Flight, RequestTypeOK, RequestOK, reqVars, SF!FlightStep, SF!Join, SF!Elect, SF!Publish,
         SF!Served, SF!Waits, SF!Release, SF!RecvClosed, SFP!SFTypeOK
  <2>2. WorldTypeOK' /\ StoreTypeOK' /\ FlagTypeOK'
    BY <1>19 DEF Flight, WorldTypeOK, StoreTypeOK, FlagTypeOK,
         worldVars, storeVars, flagVars, sfVars
  <2>. QED
    BY <2>1, <2>2
<1>20. ASSUME NEW r \in Request, BackendAnswers(r)
      PROVE  ProxyTypeOK'
  <2>1. RequestTypeOK'
    BY <1>20 DEF BackendAnswers, RequestTypeOK, RequestOK, reqVars, SF!Finish, SFP!SFTypeOK
  <2>2. WorldTypeOK' /\ StoreTypeOK' /\ FlagTypeOK'
    BY <1>20 DEF BackendAnswers, WorldTypeOK, StoreTypeOK, FlagTypeOK,
         worldVars, storeVars, flagVars, sfVars
  <2>. QED
    BY <2>1, <2>2
<1>21. ASSUME NEW r \in Request, Take(r)
      PROVE  ProxyTypeOK'
  <2>1. RequestTypeOK'
    <3>1. outcome[r] \in Payload \cup {Failed, Closed} /\ outcome' = [outcome EXCEPT ![r] = None]
      BY <1>21 DEF Take, SF!Return, SFP!SFTypeOK, SFP!Answers, KeyOutcome
    <3>2. key[r] \in Key /\ Deps(key[r]) \subseteq File /\ stage' = [stage EXCEPT ![r] = "idle"] /\ wants' = [wants EXCEPT ![r] = None]
      BY <1>21 DEF Take, SF!Return, RequestTypeOK, RequestOK, Deps
    <3>3. CASE outcome[r] \in {Failed, Closed}
      BY <1>21, <3>2, <3>3, DoneTypes DEF Take, SFP!SFTypeOK
    <3>4. CASE outcome[r] \notin {Failed, Closed}
      <4>1. \A q \in Request \ {r} : RequestOK(q)'
        BY <1>21, <3>2, <3>4 DEF Take, RequestTypeOK, RequestOK, Deps, SFP!SFTypeOK
      <4>2. RequestOK(r)'
        BY <1>21, <3>1, <3>2, <3>4 DEF Take, RequestTypeOK, RequestOK, Deps, Payload, SFP!SFTypeOK
      <4>. QED
        BY <1>21, <3>1, <3>2, <3>4, <4>1, <4>2 DEF Take, RequestTypeOK, PCs
    <3>. QED
      BY <3>3, <3>4
  <2>2. WorldTypeOK' /\ StoreTypeOK' /\ FlagTypeOK'
    BY <1>21 DEF Take, WorldTypeOK, StoreTypeOK, FlagTypeOK,
         worldVars, storeVars, flagVars, sfVars
  <2>. QED
    BY <2>1, <2>2
<1>22. ASSUME NEW r \in Request, NEW f \in File, Compare(r, f)
      PROVE  ProxyTypeOK'
  <2>1. RequestTypeOK'
    <3>1. CASE dirty[f] = None \/ CaughtUp(r, f)
      BY <1>22, <3>1 DEF Compare, RequestTypeOK, RequestOK, PCs, sfVars
    <3>2. CASE ~ (dirty[f] = None \/ CaughtUp(r, f)) /\ timeUp[r]
      BY <1>22, <3>2, DoneTypes DEF Compare, RequestTypeOK, RequestOK, sfVars
    <3>3. CASE ~ (dirty[f] = None \/ CaughtUp(r, f)) /\ ~ timeUp[r]
      BY <1>22, <3>3 DEF Compare, RequestTypeOK, RequestOK, ToFlight, PCs, sfVars
    <3>. QED
      BY <3>1, <3>2, <3>3
  <2>2. WorldTypeOK' /\ StoreTypeOK' /\ FlagTypeOK'
    BY <1>22 DEF Compare, WorldTypeOK, StoreTypeOK, FlagTypeOK,
         worldVars, storeVars, flagVars, sfVars
  <2>. QED
    BY <2>1, <2>2
<1>23. ASSUME NEW r \in Request, Associate(r)
      PROVE  ProxyTypeOK'
  <2>1. StoreTypeOK'
    BY <1>23 DEF Associate, StoreTypeOK, RequestTypeOK, RequestOK
  <2>2. RequestTypeOK'
    BY <1>23 DEF Associate, RequestTypeOK, RequestOK, PCs, sfVars
  <2>3. WorldTypeOK' /\ FlagTypeOK'
    BY <1>23 DEF Associate, WorldTypeOK, FlagTypeOK,
         worldVars, flagVars, sfVars
  <2>. QED
    BY <2>1, <2>2, <2>3
<1>24. ASSUME NEW r \in Request, Insert(r)
      PROVE  ProxyTypeOK'
  <2>1. StoreTypeOK'
    BY <1>24 DEF Insert, StoreTypeOK, RequestTypeOK, RequestOK
  <2>2. RequestTypeOK'
    <3>1. CASE caught[r] = {}
      BY <1>24, <3>1, DoneTypes DEF Insert, RequestTypeOK, RequestOK, sfVars
    <3>2. CASE caught[r] # {}
      BY <1>24, <3>2 DEF Insert, RequestTypeOK, RequestOK, Done, PCs, sfVars
    <3>. QED
      BY <3>1, <3>2
  <2>3. WorldTypeOK' /\ FlagTypeOK'
    BY <1>24 DEF Insert, WorldTypeOK, FlagTypeOK,
         worldVars, flagVars, sfVars
  <2>. QED
    BY <2>1, <2>2, <2>3
<1>25. ASSUME NEW r \in Request, NEW f \in File, ClearFlag(r, f)
      PROVE  ProxyTypeOK'
  <2>1. FlagTypeOK'
    BY <1>25 DEF ClearFlag, FlagTypeOK
  <2>2. RequestTypeOK'
    <3>1. CASE todo[r] = {f}
      BY <1>25, <3>1, DoneTypes DEF ClearFlag, RequestTypeOK, RequestOK, sfVars
    <3>2. CASE todo[r] # {f}
      BY <1>25, <3>2 DEF ClearFlag, RequestTypeOK, RequestOK, Done, PCs, sfVars
    <3>. QED
      BY <3>1, <3>2
  <2>3. WorldTypeOK' /\ StoreTypeOK'
    BY <1>25 DEF ClearFlag, WorldTypeOK, StoreTypeOK,
         worldVars, storeVars, sfVars
  <2>. QED
    BY <2>1, <2>2, <2>3
<1>26. CASE UNCHANGED vars
  BY <1>26 DEF vars, worldVars, storeVars, flagVars, reqVars, sfVars,
     WorldTypeOK, StoreTypeOK, FlagTypeOK, RequestTypeOK, RequestOK
<1>. QED
  BY <1>1, <1>2, <1>3, <1>4, <1>5, <1>6, <1>7, <1>8, <1>9, <1>10, <1>11, <1>12, <1>13, <1>14, <1>15, <1>16, <1>17, <1>18, <1>19, <1>20, <1>21, <1>22, <1>23, <1>24, <1>25, <1>26
     DEF Next, RequestStep

\* A step that at most drops what one request holds keeps NothingAhead.
LEMMA HeldDrops ==
    ASSUME CacheProxyAssumption, RequestTypeOK, NothingAhead, NEW r \in Request,
           UNCHANGED <<index, cache, outcome>>,
           held' = held \/ held' = [held EXCEPT ![r] = None]
    PROVE  NothingAhead'
<1>1. NotAhead(None)
  BY CacheProxyAssumption DEF NotAhead, Payload
<1>2. \A q \in Request : held'[q] = held[q] \/ held'[q] = None
  BY DEF RequestTypeOK
<1>3. \A p : NotAhead(p) => NotAhead(p)'
  BY DEF NotAhead
<1>. QED
  BY <1>1, <1>2, <1>3 DEF NothingAhead

\* Every step keeps what is cached, held or published behind the index.
LEMMA AheadStep ==
    ASSUME ProxyTypeOK, SFP!SFTypeOK, NothingAhead, [Next]_vars
    PROVE  NothingAhead'
<1>. USE CacheProxyAssumption DEF ProxyTypeOK, NothingAhead, NotAhead
<1>1. ASSUME NEW f \in File, Write(f)
      PROVE  NothingAhead'
  BY <1>1 DEF Write, worldVars, storeVars, reqVars, sfVars
<1>2. ASSUME NEW f \in File, Commit(f)
      PROVE  NothingAhead'
  <2>1. \A g \in File : index[g] <= index'[g] /\ index[g] \in Int /\ index'[g] \in Int
    <3>1. PICK v \in index[f] + 1 .. disk[f] : index' = [index EXCEPT ![f] = v]
      BY <1>2 DEF Commit
    <3>2. \A g \in File : index[g] \in Int
      BY DEF WorldTypeOK, Version
    <3>3. v \in Int /\ index[f] < v
      BY <3>1, <3>2, <1>2 DEF WorldTypeOK, Version
    <3>. QED
      BY <3>1, <3>2, <3>3 DEF WorldTypeOK
  <2>2. \A p : NotAhead(p) => NotAhead(p)'
    BY <2>1 DEF Payload, Version
  <2>. QED
    BY <1>2, <2>2 DEF Commit, storeVars, reqVars, sfVars
<1>3. ASSUME NEW f \in File, FlagAges(f)
      PROVE  NothingAhead'
  BY <1>3 DEF FlagAges, worldVars, storeVars, reqVars, sfVars
<1>4. ASSUME NEW k \in Key, Expire(k)
      PROVE  NothingAhead'
  BY <1>4 DEF Expire, worldVars, storeVars, reqVars, sfVars
<1>5. ASSUME NEW r \in Request, DeadlinePasses(r)
      PROVE  NothingAhead'
  BY <1>5 DEF DeadlinePasses, worldVars, storeVars, reqVars, sfVars
<1>6. ASSUME FreezeOrThaw
      PROVE  NothingAhead'
  BY <1>6 DEF FreezeOrThaw, worldVars, storeVars, reqVars, sfVars
<1>7. ASSUME NEW f \in File, MarkDirty(f)
      PROVE  NothingAhead'
  BY <1>7 DEF MarkDirty, worldVars, storeVars, reqVars, sfVars
<1>8. ASSUME NEW f \in File, InvalidateFiles(f)
      PROVE  NothingAhead'
  BY <1>8 DEF InvalidateFiles, RemoveEntries, StoreTypeOK, Payload, worldVars, storeVars, reqVars, sfVars
<1>9. ASSUME NEW S \in Prefixes, InvalidateWhere(S)
      PROVE  NothingAhead'
  BY <1>9 DEF InvalidateWhere, RemoveEntries, StoreTypeOK, Payload, worldVars, storeVars, reqVars, sfVars
<1>10. ASSUME Clear
      PROVE  NothingAhead'
  BY <1>10 DEF Clear, RemoveEntries, StoreTypeOK, Payload, worldVars, storeVars, reqVars, sfVars
<1>11. ASSUME EvictTick
      PROVE  NothingAhead'
  BY <1>11 DEF EvictTick, RemoveEntries, StoreTypeOK, Payload, worldVars, storeVars, reqVars, sfVars
<1>12. ASSUME NEW r \in Request, NEW k \in Key, Begin(r, k)
      PROVE  NothingAhead'
  BY <1>12 DEF Begin, worldVars, storeVars, reqVars, sfVars
<1>13. ASSUME NEW r \in Request, ForwardNoCache(r)
      PROVE  NothingAhead'
  BY <1>13 DEF ForwardNoCache, Done, RequestTypeOK, Payload, worldVars, storeVars, reqVars, sfVars
<1>14. ASSUME NEW r \in Request, LookupFinds(r)
      PROVE  NothingAhead'
  BY <1>14 DEF LookupFinds, RequestTypeOK, RequestOK, PCs, worldVars, storeVars, reqVars, sfVars
<1>15. ASSUME NEW r \in Request, LookupMisses(r)
      PROVE  NothingAhead'
  <2>1. UNCHANGED <<index, outcome>>
    BY <1>15 DEF LookupMisses, worldVars, sfVars
  <2>2. held' = held \/ held' = [held EXCEPT ![r] = None]
    BY <1>15 DEF LookupMisses, ToFlight
  <2>3. \A q \in Request : held'[q] = held[q] \/ held'[q] = None
    BY <2>2 DEF RequestTypeOK
  <2>4. \A k \in Key : cache'[k] = cache[k] \/ cache'[k] = None
    BY <1>15 DEF LookupMisses, RemoveEntries, StoreTypeOK
  <2>5. NotAhead(None)
    BY DEF Payload
  <2>. QED
    BY <2>1, <2>3, <2>4, <2>5
<1>16. ASSUME NEW r \in Request, NEW f \in File, Scan(r, f)
      PROVE  NothingAhead'
  <2>1. UNCHANGED <<index, cache, outcome>>
    BY <1>16 DEF Scan, worldVars, storeVars, sfVars
  <2>2. held' = held \/ held' = [held EXCEPT ![r] = None]
    BY <1>16 DEF Scan, ToFlight
  <2>. QED
    BY <2>1, <2>2, HeldDrops
<1>17. ASSUME NEW r \in Request, Hit(r)
      PROVE  NothingAhead'
  <2>1. UNCHANGED <<index, cache, outcome>>
    BY <1>17 DEF Hit, worldVars, storeVars, sfVars
  <2>2. held' = held \/ held' = [held EXCEPT ![r] = None]
    BY <1>17 DEF Hit, Done
  <2>. QED
    BY <2>1, <2>2, HeldDrops
<1>18. ASSUME NEW r \in Request, Forward(r)
      PROVE  NothingAhead'
  BY <1>18 DEF Forward, SF!Call, worldVars, storeVars, reqVars, sfVars
<1>19. ASSUME NEW r \in Request, Flight(r)
      PROVE  NothingAhead'
  BY <1>19 DEF Flight, SF!FlightStep, SF!Join, SF!Elect, SF!Publish, SF!Served, SF!Release,
     SF!RecvClosed, SF!Waits, SFP!SFTypeOK, Payload, worldVars, storeVars, reqVars, sfVars
<1>20. ASSUME NEW r \in Request, BackendAnswers(r)
      PROVE  NothingAhead'
  <2>1. PICK o \in {Snapshot(wants[r]), Failed} : SF!Finish(r, o)
    BY <1>20 DEF BackendAnswers
  <2>2. NotAhead(o)
    <3>1. \A f \in File : 0 <= index[f] /\ index[f] <= index[f]
      BY DEF WorldTypeOK, Version
    <3>2. NotAhead(Snapshot(wants[r]))
      BY <3>1 DEF Snapshot
    <3>3. NotAhead(Failed)
      BY DEF Payload
    <3>. QED
      BY <3>2, <3>3, <2>1
  <2>3. \A q \in Request : NotAhead(outcome'[q])
    BY <2>1, <2>2 DEF SF!Finish, SFP!SFTypeOK
  <2>. QED
    BY <1>20, <2>3 DEF BackendAnswers, worldVars, storeVars, reqVars
<1>21. ASSUME NEW r \in Request, Take(r)
      PROVE  NothingAhead'
  BY <1>21 DEF Take, SF!Return, Done, RequestTypeOK, SFP!SFTypeOK, Payload, worldVars, storeVars, reqVars, sfVars
<1>22. ASSUME NEW r \in Request, NEW f \in File, Compare(r, f)
      PROVE  NothingAhead'
  <2>1. UNCHANGED <<index, cache, outcome>>
    BY <1>22 DEF Compare, worldVars, storeVars, sfVars
  <2>2. held' = held \/ held' = [held EXCEPT ![r] = None]
    BY <1>22 DEF Compare, ToFlight, Done
  <2>. QED
    BY <2>1, <2>2, HeldDrops
<1>23. ASSUME NEW r \in Request, Associate(r)
      PROVE  NothingAhead'
  BY <1>23 DEF Associate, worldVars, storeVars, reqVars, sfVars
<1>24. ASSUME NEW r \in Request, Insert(r)
      PROVE  NothingAhead'
  <2>1. UNCHANGED <<index, outcome>>
    BY <1>24 DEF Insert, worldVars, sfVars
  <2>2. held' = held \/ held' = [held EXCEPT ![r] = None]
    BY <1>24 DEF Insert, Done
  <2>3. \A q \in Request : held'[q] = held[q] \/ held'[q] = None
    BY <2>2 DEF RequestTypeOK
  <2>4. \A k \in Key : cache'[k] = cache[k] \/ cache'[k] = held[r]
    BY <1>24 DEF Insert, StoreTypeOK
  <2>5. NotAhead(None)
    BY DEF Payload
  <2>. QED
    BY <2>1, <2>3, <2>4, <2>5
<1>25. ASSUME NEW r \in Request, NEW f \in File, ClearFlag(r, f)
      PROVE  NothingAhead'
  <2>1. UNCHANGED <<index, cache, outcome>>
    BY <1>25 DEF ClearFlag, worldVars, storeVars, sfVars
  <2>2. held' = held \/ held' = [held EXCEPT ![r] = None]
    BY <1>25 DEF ClearFlag, Done
  <2>. QED
    BY <2>1, <2>2, HeldDrops
<1>26. CASE UNCHANGED vars
  BY <1>26 DEF vars, worldVars, storeVars, reqVars, sfVars
<1>. QED
  BY <1>1, <1>2, <1>3, <1>4, <1>5, <1>6, <1>7, <1>8, <1>9, <1>10, <1>11, <1>12, <1>13, <1>14, <1>15, <1>16, <1>17, <1>18, <1>19, <1>20, <1>21, <1>22, <1>23, <1>24, <1>25, <1>26
     DEF Next, RequestStep

\* No step clears a flag too early or lowers it.
LEMMA FlagStepLemma ==
    ASSUME ProxyTypeOK, NothingAhead, MonotoneMtime, NEW g \in File, [Next]_vars
    PROVE  FlagStep(g)
<1>. USE CacheProxyAssumption DEF ProxyTypeOK, FlagTypeOK, FlagStep
<1>1. ASSUME NEW f \in File, Write(f)
      PROVE  FlagStep(g)
  BY <1>1 DEF Write, flagVars
<1>2. ASSUME NEW f \in File, Commit(f)
      PROVE  FlagStep(g)
  BY <1>2 DEF Commit, flagVars
<1>3. ASSUME NEW f \in File, FlagAges(f)
      PROVE  FlagStep(g)
  BY <1>3 DEF FlagAges, FlagTypeOK
<1>4. ASSUME NEW k \in Key, Expire(k)
      PROVE  FlagStep(g)
  BY <1>4 DEF Expire, flagVars
<1>5. ASSUME NEW r \in Request, DeadlinePasses(r)
      PROVE  FlagStep(g)
  BY <1>5 DEF DeadlinePasses, flagVars
<1>6. ASSUME FreezeOrThaw
      PROVE  FlagStep(g)
  BY <1>6 DEF FreezeOrThaw, FlagTypeOK, flagVars
<1>7. ASSUME NEW f \in File, MarkDirty(f)
      PROVE  FlagStep(g)
  BY <1>7 DEF MarkDirty, FlagTypeOK, Version
<1>8. ASSUME NEW f \in File, InvalidateFiles(f)
      PROVE  FlagStep(g)
  BY <1>8 DEF InvalidateFiles, flagVars
<1>9. ASSUME NEW S \in Prefixes, InvalidateWhere(S)
      PROVE  FlagStep(g)
  BY <1>9 DEF InvalidateWhere, flagVars
<1>10. ASSUME Clear
      PROVE  FlagStep(g)
  BY <1>10 DEF Clear, flagVars
<1>11. ASSUME EvictTick
      PROVE  FlagStep(g)
  BY <1>11 DEF EvictTick, FlagTypeOK
<1>12. ASSUME NEW r \in Request, NEW k \in Key, Begin(r, k)
      PROVE  FlagStep(g)
  BY <1>12 DEF Begin, flagVars
<1>13. ASSUME NEW r \in Request, ForwardNoCache(r)
      PROVE  FlagStep(g)
  BY <1>13 DEF ForwardNoCache, flagVars
<1>14. ASSUME NEW r \in Request, LookupFinds(r)
      PROVE  FlagStep(g)
  BY <1>14 DEF LookupFinds, flagVars
<1>15. ASSUME NEW r \in Request, LookupMisses(r)
      PROVE  FlagStep(g)
  BY <1>15 DEF LookupMisses, flagVars
<1>16. ASSUME NEW r \in Request, NEW f \in File, Scan(r, f)
      PROVE  FlagStep(g)
  BY <1>16 DEF Scan, flagVars
<1>17. ASSUME NEW r \in Request, Hit(r)
      PROVE  FlagStep(g)
  BY <1>17 DEF Hit, flagVars
<1>18. ASSUME NEW r \in Request, Forward(r)
      PROVE  FlagStep(g)
  BY <1>18 DEF Forward, flagVars
<1>19. ASSUME NEW r \in Request, Flight(r)
      PROVE  FlagStep(g)
  BY <1>19 DEF Flight, flagVars
<1>20. ASSUME NEW r \in Request, BackendAnswers(r)
      PROVE  FlagStep(g)
  BY <1>20 DEF BackendAnswers, flagVars
<1>21. ASSUME NEW r \in Request, Take(r)
      PROVE  FlagStep(g)
  BY <1>21 DEF Take, flagVars
<1>22. ASSUME NEW r \in Request, NEW f \in File, Compare(r, f)
      PROVE  FlagStep(g)
  BY <1>22 DEF Compare, flagVars
<1>23. ASSUME NEW r \in Request, Associate(r)
      PROVE  FlagStep(g)
  BY <1>23 DEF Associate, flagVars
<1>24. ASSUME NEW r \in Request, Insert(r)
      PROVE  FlagStep(g)
  BY <1>24 DEF Insert, flagVars
<1>25. ASSUME NEW r \in Request, NEW f \in File, ClearFlag(r, f)
      PROVE  FlagStep(g)
  <2>1. CASE ~ (dirty[f] # None /\ Mtime[held[r][f]] >= dirty[f])
    BY <1>25, <2>1
    DEF ClearFlag, FlagTypeOK
  <2>2. CASE dirty[f] # None /\ Mtime[held[r][f]] >= dirty[f]
    <3>1. held[r] \in Payload
      BY <1>25 DEF ClearFlag, RequestTypeOK, RequestOK
    <3>2. held[r][f] \in Version /\ index[f] \in Version /\ held[r][f] <= index[f]
      BY <3>1 DEF NothingAhead, NotAhead, Payload, WorldTypeOK
    <3>3. Mtime[index[f]] >= dirty[f]
      BY <2>2, <3>2 DEF MonotoneMtime, FlagTypeOK
    <3>. QED
      BY <1>25, <2>2, <3>3 DEF ClearFlag, FlagTypeOK
  <2>. QED
    BY <2>1, <2>2
<1>26. CASE UNCHANGED vars
  BY <1>26 DEF vars, flagVars
<1>. QED
  BY <1>1, <1>2, <1>3, <1>4, <1>5, <1>6, <1>7, <1>8, <1>9, <1>10, <1>11, <1>12, <1>13, <1>14, <1>15, <1>16, <1>17, <1>18, <1>19, <1>20, <1>21, <1>22, <1>23, <1>24, <1>25, <1>26
     DEF Next, RequestStep

ProxyInv == ProxyTypeOK /\ SFP!SFTypeOK /\ NothingAhead

LEMMA ProxyInitInv == Init => ProxyInv /\ SFP!SFInit
<1>. SUFFICES ASSUME Init PROVE ProxyInv /\ SFP!SFInit
  OBVIOUS
<1>1. SFP!SFInit
  BY DEF Init, SF!SFInit, SFP!SFInit
<1>2. SFP!SFTypeOK
  BY <1>1, FlightConstants, SFP!SFInitInv DEF SFP!SFInv
<1>3. WorldTypeOK /\ StoreTypeOK /\ FlagTypeOK
  <2>1. 0 \in Version
    BY CacheProxyAssumption DEF Version
  <2>2. WorldTypeOK
    BY <2>1 DEF Init, WorldTypeOK
  <2>3. StoreTypeOK
    BY DEF Init, StoreTypeOK
  <2>4. FlagTypeOK
    BY DEF Init, FlagTypeOK
  <2>. QED
    BY <2>2, <2>3, <2>4
<1>4. RequestTypeOK
  BY CacheProxyAssumption DEF Init, RequestTypeOK, RequestOK, PCs, SF!SFInit
<1>5. NothingAhead
  BY CacheProxyAssumption DEF Init, NothingAhead, NotAhead, Payload, SF!SFInit
<1>. QED
  BY <1>1, <1>2, <1>3, <1>4, <1>5 DEF ProxyInv, ProxyTypeOK

LEMMA ProxyInvStep == ProxyInv /\ [Next]_vars => ProxyInv'
<1>. SUFFICES ASSUME ProxyInv, [Next]_vars PROVE ProxyInv'
  OBVIOUS
<1>1. SFP!SFTypeOK'
  BY FlightConstants, FlightStepOrStutter, SFP!TypeStep DEF ProxyInv
<1>. QED
  BY <1>1, ProxyTypeStep, AheadStep DEF ProxyInv

\* The types of the proxy's state, and of single-flight's inside it, and that
\* nothing cached, held or published is newer than the backend's index.
THEOREM ProxySafety == Spec => []ProxyInv
<1>1. Init => ProxyInv
  BY ProxyInitInv
<1>. QED
  BY <1>1, ProxyInvStep, PTL DEF Spec

\* Type correctness of the whole proxy, for every instance.
THEOREM ProxyTypeCorrect == Spec => []ProxyTypeOK
BY ProxySafety, PTL DEF ProxyInv

\* forward_once uses do_or_join as it is meant to be used: the composition
\* implements SingleFlight, so that its invariants hold here too.
THEOREM UsesSingleFlight == Spec => SFP!SFSpec
<1>1. Init => SFP!SFInit
  BY ProxyInitInv
<1>2. ProxyInv /\ [Next]_vars => [SFP!SFNext]_(SFP!sfVars)
  BY FlightStepOrStutter DEF ProxyInv
<1>. QED
  BY <1>1, <1>2, ProxySafety, PTL DEF Spec, SFP!SFSpec

\* No key stays registered in the proxy's single-flight without a leader.
THEOREM ProxyFlightsHaveLeaders == Spec => []SFP!RegisteredHasLeader
BY UsesSingleFlight, FlightConstants, SFP!RegisteredAlwaysHasLeader, PTL

\* Followers of the proxy's requests count on leaders of their own key and get the
\* first answer of one, as Flight promises.
THEOREM ProxyImplementsFlight == Spec => SFP!ImplementsFlight
BY UsesSingleFlight, FlightConstants, SFP!SingleFlightImplements, PTL

\* A dirty flag is cleared only when the index has caught up with the newest
\* announced write, or by age, and is never lowered - as long as later versions
\* of a file do not have earlier modification times (clear_if_caught_up).
THEOREM FlagsClearedInTime ==
    ASSUME MonotoneMtime
    PROVE  Spec => ClearedOnlyWhenCaughtUp
<1>1. ProxyInv /\ [Next]_vars => [\A f \in File : FlagStep(f)]_vars
  BY FlagStepLemma, MonotoneMtime DEF ProxyInv
<1>. QED
  BY <1>1, ProxySafety, PTL DEF Spec, ClearedOnlyWhenCaughtUp

-----------------------------------------------------------------------------
(* Freshness.  A flag stands for all files of one path, so two requests that *)
(* bring back answers of different age can clear it behind each other's      *)
(* back (run CacheProxy_shared).  The files of a set Own are free of that if *)
(* each belongs to one key, and requests for that key do not overlap; what   *)
(* the requests for other keys and the other files of an answer do is open.  *)

\* Files that belong to one key.
Private(f) == \A k, l \in Key : f \in Deps(k) \cap Deps(l) => k = l

\* Two requests for a key with a file in Own are not in handle() together.
AloneOn(Own) ==
    \A r, s \in Request : r # s /\ key[r] = key[s] /\ key[r] # None => Deps(key[r]) \cap Own = {}

\* No file is a dependency of two keys.
DisjointDeps == \A f \in File : Private(f)

\* An answer older than the newest announced write of f leaves its flag standing.
Flagged(p, f) == p \in Payload => (Mtime[p[f]] < promised[f] => dirty[f] = promised[f])

\* This holds of the index, and so of what is answered from it, held and cached.
IndexFlagged == \A f \in File : Flagged(index, f)
CacheFlagged(Own) == \A k \in Key : \A f \in Deps(k) \cap Own : Flagged(cache[k], f)
AnswersFlagged(Own) ==
    \A r \in Request : key[r] # None =>
        \A f \in Deps(key[r]) \cap Own : Flagged(held[r], f) /\ Flagged(outcome[r], f)

\* A flag never exceeds what was announced.
FlagAnnounced == \A f \in File : dirty[f] # None => dirty[f] <= promised[f]

\* Who is about to clear flags has the answer in the cache, if any is there.
ClearsForEntry(Own) ==
    \A r \in Request : pc[r] = "clear" /\ Deps(key[r]) \cap Own # {} =>
        cache[key[r]] \in {None, held[r]}

FreshInv(Own) ==
    /\ FlagAnnounced /\ IndexFlagged
    /\ CacheFlagged(Own) /\ AnswersFlagged(Own) /\ ClearsForEntry(Own)

\* Which steps change a flag or what was announced.
LEMMA FlagChanges ==
    ASSUME [Next]_vars
    PROVE  \/ UNCHANGED <<dirty, promised>>
           \/ \E f \in File : MarkDirty(f)
           \/ EvictTick
           \/ \E r \in Request, f \in File : ClearFlag(r, f)
BY DEF Next, RequestStep, Write, Commit, Expire, FlagAges, DeadlinePasses, FreezeOrThaw,
       InvalidateFiles, InvalidateWhere, Clear, Begin, ForwardNoCache, LookupFinds, LookupMisses,
       Scan, Hit, Forward, Flight, BackendAnswers, Take, Compare, Associate, Insert, flagVars, vars

\* An entry stays, goes, or is what some request inserts.
LEMMA CacheChanges ==
    ASSUME ProxyTypeOK, [Next]_vars, NEW k \in Key
    PROVE  \/ cache'[k] \in {cache[k], None}
           \/ \E r \in Request : Insert(r) /\ key[r] = k /\ cache'[k] = held[r]
BY DEF ProxyTypeOK, StoreTypeOK, RemoveEntries,
       Next, RequestStep, Write, Commit, Expire, FlagAges, DeadlinePasses, FreezeOrThaw, MarkDirty,
       InvalidateFiles, InvalidateWhere, Clear, EvictTick, Begin, ForwardNoCache, LookupFinds,
       LookupMisses, Scan, Hit, Forward, Flight, BackendAnswers, Take, Compare, Associate, Insert,
       ClearFlag, storeVars, vars

\* What a request holds comes from where it was, the cache or its flight.
LEMMA HeldChanges ==
    ASSUME ProxyTypeOK, [Next]_vars, NEW q \in Request
    PROVE  \/ held'[q] = None
           \/ key'[q] = key[q] /\ held'[q] \in {held[q], cache[key[q]], outcome[q]}
<1>0. /\ key \in [Request -> Key \cup {None}]
      /\ held \in [Request -> Payload \cup {None}]
  BY DEF ProxyTypeOK, RequestTypeOK
<1>1. CASE UNCHANGED <<key, held>>
  BY <1>1
<1>2. ASSUME NEW r \in Request, NEW k \in Key, Begin(r, k)
      PROVE  held'[q] = None \/ (key'[q] = key[q] /\ held'[q] = held[q])
  BY <1>0, <1>2 DEF Begin, ProxyTypeOK, RequestTypeOK, RequestOK
<1>3. ASSUME NEW r \in Request, Done(r) \/ UNCHANGED <<key, held>> \/ ToFlight(r)
      PROVE  held'[q] = None \/ (key'[q] = key[q] /\ held'[q] = held[q])
  <2>1. CASE Done(r)
    BY <1>0, <2>1 DEF Done
  <2>2. CASE ToFlight(r)
    BY <1>0, <2>2 DEF ToFlight
  <2>. QED
    BY <1>3, <2>1, <2>2
<1>4. ASSUME NEW r \in Request, LookupFinds(r)
      PROVE  key'[q] = key[q] /\ held'[q] \in {held[q], cache[key[q]]}
  BY <1>0, <1>4 DEF LookupFinds
<1>5. ASSUME NEW r \in Request, Take(r)
      PROVE  held'[q] = None \/ (key'[q] = key[q] /\ held'[q] \in {held[q], outcome[q]})
  BY <1>0, <1>5 DEF Take, Done
<1>6. ASSUME NEW r \in Request,
             \/ ForwardNoCache(r) \/ LookupMisses(r) \/ Hit(r) \/ Insert(r)
             \/ \E f \in File : Scan(r, f) \/ Compare(r, f) \/ ClearFlag(r, f)
      PROVE  Done(r) \/ UNCHANGED <<key, held>> \/ ToFlight(r)
  BY <1>6 DEF ForwardNoCache, LookupMisses, Hit, Insert, Scan, Compare, ClearFlag
<1>7. ASSUME [Next]_vars,
             ~ \E r \in Request :
                  \/ \E k \in Key : Begin(r, k)
                  \/ ForwardNoCache(r) \/ LookupMisses(r) \/ Hit(r) \/ Insert(r)
                  \/ \E f \in File : Scan(r, f) \/ Compare(r, f) \/ ClearFlag(r, f)
                  \/ LookupFinds(r) \/ Take(r)
      PROVE  UNCHANGED <<key, held>>
  BY <1>7 DEF Next, RequestStep, Write, Commit, Expire, FlagAges, DeadlinePasses, FreezeOrThaw,
     MarkDirty, InvalidateFiles, InvalidateWhere, Clear, EvictTick, Forward, Flight,
     BackendAnswers, Associate, reqVars, vars
<1>. QED
  BY <1>1, <1>2, <1>3, <1>4, <1>5, <1>6, <1>7

\* The answer of a flight is the present index, or that of a leader of the key.
LEMMA OutcomeChanges ==
    ASSUME ProxyTypeOK, SFP!SFTypeOK, SFP!KeyIsolation, [Next]_vars, NEW q \in Request
    PROVE  \/ outcome'[q] \notin Payload
           \/ /\ key'[q] = key[q]
              /\ \/ outcome'[q] \in {outcome[q], Snapshot(key[q])}
                 \/ \E c \in Request : key[c] = key[q] /\ outcome'[q] = outcome[c]
<1>0. /\ key \in [Request -> Key \cup {None}]
      /\ outcome \in [Request -> SFP!Answers \cup {None}]
      /\ None \notin Payload /\ Closed \notin Payload /\ Failed \notin Payload
      /\ stage[q] # "idle" => key[q] = wants[q] /\ pc[q] = "flight"
      /\ stage[q] = "idle" => outcome[q] = None
  BY CacheProxyAssumption
     DEF ProxyTypeOK, RequestTypeOK, RequestOK, SFP!SFTypeOK, Payload
<1>1. CASE UNCHANGED <<key, outcome>>
  BY <1>1
<1>2. CASE UNCHANGED outcome /\ stage[q] = "idle"
  BY <1>0, <1>2
<1>3. ASSUME NEW r \in Request, Flight(r)
      PROVE  \/ outcome'[q] \in {outcome[q], Closed}
             \/ \E c \in Request : key[c] = key[q] /\ outcome'[q] = outcome[c]
  <2>1. CASE SF!Publish(r)
    <3>1. CASE ~ SF!Served(r, q)
      BY <1>0, <2>1, <3>1 DEF SF!Publish
    <3>2. CASE SF!Served(r, q)
      <4>1. chan[q] # None /\ chan[r] = chan[q] /\ stage[r] # "idle" /\ stage[q] # "idle"
        BY <2>1, <3>2 DEF SF!Publish, SF!Served, SF!Waits, SFP!SFTypeOK, SFP!Waits
      <4>2. wants[r] = wants[q]
        BY <4>1 DEF SFP!KeyIsolation
      <4>3. key[r] = key[q]
        BY <4>1, <4>2 DEF ProxyTypeOK, RequestTypeOK, RequestOK
      <4>. QED
        BY <1>0, <2>1, <3>2, <4>3 DEF SF!Publish
    <3>. QED
      BY <3>1, <3>2
  <2>2. CASE SF!RecvClosed(r)
    BY <1>0, <2>2 DEF SF!RecvClosed
  <2>. QED
    BY <1>3, <2>1, <2>2 DEF Flight, SF!FlightStep, SF!Join, SF!Elect, SF!Release
<1>4. ASSUME NEW r \in Request, BackendAnswers(r)
      PROVE  outcome'[q] \in {outcome[q], Failed, Snapshot(key[q])}
  <2>1. PICK o \in {Snapshot(wants[r]), Failed} : SF!Finish(r, o)
    BY <1>4 DEF BackendAnswers
  <2>2. q = r => key[q] = wants[r]
    BY <1>0, <2>1 DEF SF!Finish
  <2>. QED
    BY <1>0, <2>1, <2>2 DEF SF!Finish
<1>5. ASSUME NEW r \in Request, Take(r)
      PROVE  outcome'[q] = None \/ UNCHANGED <<key[q], outcome[q]>>
  BY <1>0, <1>5 DEF Take, Done, SF!Return
<1>6. ASSUME NEW r \in Request, Forward(r) \/ Flight(r) \/ BackendAnswers(r)
      PROVE  UNCHANGED key
  BY <1>6 DEF Forward, Flight, BackendAnswers, reqVars
<1>7. ASSUME NEW r \in Request, Forward(r)
      PROVE  UNCHANGED outcome
  BY <1>7 DEF Forward, SF!Call
<1>8. ASSUME NEW r \in Request, r # q,
             \/ ForwardNoCache(r) \/ Hit(r) \/ Insert(r) \/ LookupFinds(r) \/ LookupMisses(r)
             \/ Associate(r) \/ \E k \in Key : Begin(r, k)
             \/ \E f \in File : Scan(r, f) \/ Compare(r, f) \/ ClearFlag(r, f)
      PROVE  UNCHANGED <<key[q], outcome>>
  BY <1>0, <1>8 DEF ForwardNoCache, Hit, Insert, LookupFinds, LookupMisses, Associate, Begin,
     Scan, Compare, ClearFlag, Done, ToFlight, sfVars
<1>9. CASE \/ ForwardNoCache(q) \/ Hit(q) \/ Insert(q) \/ LookupFinds(q) \/ LookupMisses(q)
           \/ Associate(q) \/ \E k \in Key : Begin(q, k)
           \/ \E f \in File : Scan(q, f) \/ Compare(q, f) \/ ClearFlag(q, f)
  <2>1. UNCHANGED outcome /\ pc[q] # "flight"
    BY <1>9 DEF ForwardNoCache, Hit, Insert, LookupFinds, LookupMisses, Associate, Begin,
       Scan, Compare, ClearFlag, sfVars
  <2>. QED
    BY <1>0, <1>2, <2>1
<1>10. ASSUME [Next]_vars, ~ \E r \in Request : (\E k \in Key : Begin(r, k)) \/ RequestStep(r)
       PROVE  UNCHANGED <<key, outcome>>
  BY <1>10 DEF Next, Write, Commit, Expire, FlagAges, DeadlinePasses, FreezeOrThaw, MarkDirty,
     InvalidateFiles, InvalidateWhere, Clear, EvictTick, reqVars, sfVars, vars
<1>11. CASE \E r \in Request : (\E k \in Key : Begin(r, k)) \/ RequestStep(r)
  <2>1. PICK r \in Request : (\E k \in Key : Begin(r, k)) \/ RequestStep(r)
    BY <1>11
  <2>2. CASE Forward(r) \/ Flight(r) \/ BackendAnswers(r) \/ Take(r)
    BY <1>0, <1>3, <1>4, <1>5, <1>6, <1>7, <2>2
  <2>3. CASE ~ (Forward(r) \/ Flight(r) \/ BackendAnswers(r) \/ Take(r))
    BY <1>8, <1>9, <2>1, <2>3 DEF RequestStep
  <2>. QED
    BY <2>2, <2>3
<1>. QED
  BY <1>1, <1>10, <1>11

\* A request about to clear flags was so before, or has just put its answer in.
LEMMA ClearComes ==
    ASSUME ProxyTypeOK, [Next]_vars, NEW q \in Request, pc'[q] = "clear"
    PROVE  \/ Insert(q)
           \/ pc[q] = "clear" /\ UNCHANGED <<key[q], held[q]>>
<1>0. /\ pc \in [Request -> PCs]
      /\ key \in [Request -> Key \cup {None}]
      /\ held \in [Request -> Payload \cup {None}]
  BY DEF ProxyTypeOK, RequestTypeOK
<1>1. CASE UNCHANGED <<pc, key, held>>
  BY <1>1
<1>2. ASSUME [Next]_vars, ~ \E r \in Request : (\E k \in Key : Begin(r, k)) \/ RequestStep(r)
      PROVE  UNCHANGED <<pc, key, held>>
  BY <1>2 DEF Next, Write, Commit, Expire, FlagAges, DeadlinePasses, FreezeOrThaw, MarkDirty,
     InvalidateFiles, InvalidateWhere, Clear, EvictTick, reqVars, vars
<1>3. ASSUME NEW r \in Request, r # q, (\E k \in Key : Begin(r, k)) \/ RequestStep(r)
      PROVE  UNCHANGED <<pc[q], key[q], held[q]>>
  BY <1>0, <1>3 DEF RequestStep, Begin, ForwardNoCache, LookupFinds, LookupMisses, Scan, Hit,
     Forward, Flight, BackendAnswers, Take, Compare, Associate, Insert, ClearFlag, Done, ToFlight,
     reqVars
<1>4. CASE (\E k \in Key : Begin(q, k)) \/ RequestStep(q)
  <2>1. CASE \E f \in File : ClearFlag(q, f)
    BY <1>0, <2>1 DEF ClearFlag, Done
  <2>2. CASE Forward(q) \/ Flight(q) \/ BackendAnswers(q)
    BY <1>1, <2>2 DEF Forward, Flight, BackendAnswers, reqVars
  <2>3. CASE \E f \in File : Scan(q, f) \/ Compare(q, f)
    BY <1>0, <2>3 DEF Scan, Compare, Done, ToFlight
  <2>4. CASE \/ \E k \in Key : Begin(q, k)
             \/ ForwardNoCache(q) \/ LookupFinds(q) \/ LookupMisses(q) \/ Hit(q) \/ Take(q)
             \/ Associate(q)
    BY <1>0, <2>4 DEF Begin, ForwardNoCache, LookupFinds, LookupMisses, Hit, Take, Associate,
       Done, ToFlight
  <2>. QED
    BY <1>4, <2>1, <2>2, <2>3, <2>4 DEF RequestStep
<1>. QED
  BY <1>1, <1>2, <1>3, <1>4

\* Whatever is flagged stays so, as long as no request clears a flag.
LEMMA StaysFlagged ==
    ASSUME FlagTypeOK, FlagAnnounced,
           UNCHANGED <<dirty, promised>> \/ (\E g \in File : MarkDirty(g)) \/ EvictTick
    PROVE  /\ FlagAnnounced'
           /\ \A p \in Payload, f \in File :
                 (Mtime[p[f]] < promised[f] => dirty[f] = promised[f])
                    => (Mtime[p[f]] < promised'[f] => dirty'[f] = promised'[f])
<1>. USE CacheProxyAssumption DEF FlagTypeOK, FlagAnnounced
<1>0. \A p \in Payload, f \in File : Mtime[p[f]] \in Nat
  BY DEF Payload
<1>1. CASE UNCHANGED <<dirty, promised>>
  BY <1>1
<1>2. ASSUME NEW g \in File, MarkDirty(g)
      PROVE  /\ FlagAnnounced'
             /\ \A p \in Payload, f \in File :
                   (Mtime[p[f]] < promised[f] => dirty[f] = promised[f])
                      => (Mtime[p[f]] < promised'[f] => dirty'[f] = promised'[f])
  <2>1. PICK m \in {Mtime[v] : v \in Version} :
            /\ dirty' = [dirty EXCEPT ![g] = IF @ # None /\ @ > m THEN @ ELSE m]
            /\ promised' = [promised EXCEPT ![g] = IF @ > m THEN @ ELSE m]
    BY <1>2 DEF MarkDirty
  <2>2. m \in Nat
    OBVIOUS
  <2>. QED
    BY <1>0, <2>1, <2>2
<1>3. CASE EvictTick
  BY <1>0, <1>3 DEF EvictTick
<1>. QED
  BY <1>1, <1>2, <1>3

\* A request clears a flag that its answer has reached.
LEMMA ClearedAnswer ==
    ASSUME ProxyTypeOK, NEW r \in Request, NEW g \in File, ClearFlag(r, g)
    PROVE  /\ key[r] \in Key /\ g \in Deps(key[r]) /\ held[r] \in Payload
           /\ dirty'[g] # dirty[g] => dirty[g] # None /\ Mtime[held[r][g]] >= dirty[g]
BY CacheProxyAssumption DEF ProxyTypeOK, RequestTypeOK, RequestOK, FlagTypeOK, ClearFlag

\* If answers that are behind are flagged, it has reached what was announced.
LEMMA ClearedAnswerNew ==
    ASSUME ProxyTypeOK, NEW Own, AnswersFlagged(Own),
           NEW r \in Request, NEW g \in File \cap Own, ClearFlag(r, g)
    PROVE  dirty'[g] # dirty[g] => Mtime[held[r][g]] >= promised[g]
<1>. USE CacheProxyAssumption DEF ProxyTypeOK, FlagTypeOK
<1>1. key[r] \in Key /\ g \in Deps(key[r]) /\ held[r] \in Payload
  BY ClearedAnswer
<1>2. ASSUME dirty'[g] # dirty[g]
      PROVE  Mtime[held[r][g]] >= promised[g]
  <2>1. dirty[g] # None /\ Mtime[held[r][g]] >= dirty[g]
    BY <1>2, ClearedAnswer
  <2>2. Mtime[held[r][g]] \in Nat /\ promised[g] \in Nat
    BY <1>1 DEF Payload
  <2>3. Mtime[held[r][g]] < promised[g] => dirty[g] = promised[g]
    BY <1>1 DEF AnswersFlagged, Flagged
  <2>. QED
    BY <2>1, <2>2, <2>3
<1>. QED
  BY <1>2

\* Clearing a flag leaves those of the other files and the announcements alone.
LEMMA ClearsOneFlag ==
    ASSUME FlagTypeOK, FlagAnnounced, NEW r \in Request, NEW g \in File, ClearFlag(r, g)
    PROVE  /\ FlagAnnounced'
           /\ UNCHANGED <<promised, index, cache, outcome>>
           /\ \A f \in File \ {g} : dirty'[f] = dirty[f]
BY DEF FlagTypeOK, FlagAnnounced, ClearFlag, worldVars, storeVars, sfVars

\* Which steps change the index: a commit, and only to later versions.
LEMMA IndexGrows ==
    ASSUME ProxyTypeOK, SFP!SFTypeOK, [Next]_vars
    PROVE  index \in Payload /\ index' \in Payload /\ \A f \in File : index[f] <= index'[f]
<1>1. index \in Payload /\ index' \in Payload
  BY ProxyTypeStep DEF ProxyTypeOK, WorldTypeOK, Payload
<1>2. index' = index \/ \E f \in File : Commit(f)
  BY DEF Next, RequestStep, Write, Expire, FlagAges, DeadlinePasses, FreezeOrThaw, MarkDirty,
     InvalidateFiles, InvalidateWhere, Clear, EvictTick, Begin, ForwardNoCache, LookupFinds,
     LookupMisses, Scan, Hit, Forward, Flight, BackendAnswers, Take, Compare, Associate, Insert,
     ClearFlag, worldVars, vars
<1>3. ASSUME NEW f \in File, Commit(f)
      PROVE  \A g \in File : index[g] <= index'[g]
  <2>1. PICK v \in index[f] + 1 .. disk[f] : index' = [index EXCEPT ![f] = v]
    BY <1>3 DEF Commit
  <2>. QED
    BY <1>1, <2>1 DEF Payload, Version
<1>. QED
  BY <1>1, <1>2, <1>3 DEF Payload, Version

\* Every step leaves the index flagged where it is behind.
LEMMA IndexFlaggedStep ==
    ASSUME ProxyTypeOK, SFP!SFTypeOK, NothingAhead, MonotoneMtime,
           FlagAnnounced, IndexFlagged, [Next]_vars
    PROVE  FlagAnnounced' /\ IndexFlagged'
<1>. USE CacheProxyAssumption DEF Flagged
<1>0. FlagTypeOK /\ FlagTypeOK'
  BY ProxyTypeStep DEF ProxyTypeOK
<1>1. CASE UNCHANGED <<dirty, promised>> \/ (\E g \in File : MarkDirty(g)) \/ EvictTick
  <2>1. \A f \in File : Mtime[index[f]] < promised'[f] => dirty'[f] = promised'[f]
    BY <1>0, <1>1, IndexGrows, StaysFlagged DEF IndexFlagged
  <2>2. \A f \in File : Mtime[index'[f]] < promised'[f] => Mtime[index[f]] < promised'[f]
    BY <1>0, IndexGrows DEF MonotoneMtime, Payload, FlagTypeOK
  <2>. QED
    BY <1>0, <1>1, <2>1, <2>2, StaysFlagged DEF IndexFlagged
<1>2. ASSUME NEW r \in Request, NEW g \in File, ClearFlag(r, g)
      PROVE  FlagAnnounced' /\ IndexFlagged'
  <2>1. Mtime[held[r][g]] <= Mtime[index[g]] /\ Mtime[held[r][g]] \in Nat
    <3>1. held[r] \in Payload
      BY <1>2, ClearedAnswer
    <3>2. held[r][g] \in Version /\ index[g] \in Version /\ held[r][g] <= index[g]
      BY <3>1, IndexGrows DEF NothingAhead, NotAhead, Payload
    <3>. QED
      BY <3>2 DEF MonotoneMtime
  <2>2. dirty'[g] # dirty[g] => ~ (Mtime[index[g]] < promised[g])
    <3>1. ASSUME dirty'[g] # dirty[g], Mtime[index[g]] < promised[g]
          PROVE  FALSE
      <4>1. dirty[g] = promised[g] /\ Mtime[held[r][g]] >= dirty[g]
        BY <1>2, <3>1, ClearedAnswer, IndexGrows DEF IndexFlagged
      <4>2. promised[g] \in Nat /\ Mtime[index[g]] \in Nat
        BY <1>0, IndexGrows DEF FlagTypeOK, Payload
      <4>. QED
        BY <2>1, <3>1, <4>1, <4>2
    <3>. QED
      BY <3>1
  <2>. QED
    BY <1>0, <1>2, <2>2, ClearsOneFlag DEF IndexFlagged
<1>. QED
  BY <1>1, <1>2, FlagChanges

\* Every step leaves the entries flagged that are behind: what a request puts in is
\* flagged like the entries, and it clears a flag only of its own, new entry.
LEMMA CacheFlaggedStep ==
    ASSUME NEW Own \in SUBSET File, \A f \in Own : Private(f), ProxyTypeOK,
           FlagAnnounced, CacheFlagged(Own), AnswersFlagged(Own), ClearsForEntry(Own), [Next]_vars
    PROVE  CacheFlagged(Own)'
<1>. USE CacheProxyAssumption DEF Flagged
<1>0. FlagTypeOK /\ \A k \in Key : Deps(k) \subseteq File
  BY DEF ProxyTypeOK, Deps
<1>1. CASE UNCHANGED <<dirty, promised>> \/ (\E g \in File : MarkDirty(g)) \/ EvictTick
  <2>1. SUFFICES ASSUME NEW k \in Key, NEW f \in Deps(k) \cap Own, cache'[k] \in Payload,
                        Mtime[cache'[k][f]] < promised'[f]
                 PROVE  dirty'[f] = promised'[f]
    BY DEF CacheFlagged, Deps
  <2>2. Flagged(cache'[k], f)
    <3>1. CASE cache'[k] = cache[k]
      BY <3>1 DEF CacheFlagged
    <3>2. ASSUME NEW r \in Request, Insert(r), key[r] = k, cache'[k] = held[r]
          PROVE  Flagged(cache'[k], f)
      BY <3>2 DEF AnswersFlagged
    <3>. QED
      BY <2>1, <3>1, <3>2, CacheChanges DEF Payload
  <2>. QED
    BY <1>0, <1>1, <2>1, <2>2, StaysFlagged
<1>2. ASSUME NEW r \in Request, NEW g \in File, ClearFlag(r, g)
      PROVE  CacheFlagged(Own)'
  <2>1. SUFFICES ASSUME NEW k \in Key, NEW f \in Deps(k) \cap Own, cache[k] \in Payload,
                        Mtime[cache[k][f]] < promised[f]
                 PROVE  dirty'[f] = promised[f]
    BY <1>0, <1>2, ClearsOneFlag DEF CacheFlagged, Deps
  <2>2. dirty[f] = promised[f]
    BY <2>1 DEF CacheFlagged
  <2>3. CASE f # g
    BY <1>0, <1>2, <2>2, <2>3, ClearsOneFlag
  <2>4. CASE f = g
    <3>1. k = key[r]
      BY <1>2, <2>4, ClearedAnswer DEF Private
    <3>2. cache[k] = held[r]
      BY <1>2, <2>1, <3>1 DEF ClearFlag, ClearsForEntry, Payload
    <3>. QED
      BY <1>0, <1>2, <2>1, <2>2, <2>4, <3>2, ClearedAnswerNew DEF FlagTypeOK, Payload
  <2>. QED
    BY <2>3, <2>4
<1>. QED
  BY <1>1, <1>2, FlagChanges

\* Whatever a request has got by a step is flagged as things were before it.
LEMMA AnswersComeFlagged ==
    ASSUME NEW Own \in SUBSET File, ProxyTypeOK, SFP!SFTypeOK, SFP!KeyIsolation,
           IndexFlagged, CacheFlagged(Own), AnswersFlagged(Own), [Next]_vars,
           NEW q \in Request, key'[q] # None, NEW f \in Deps(key'[q]) \cap Own
    PROVE  Flagged(held'[q], f) /\ Flagged(outcome'[q], f)
<1>. USE CacheProxyAssumption
<1>0. f \in File /\ key'[q] \in Key /\ \A k \in Key : Deps(k) \subseteq Reads[k]
  BY ProxyTypeStep DEF ProxyTypeOK, RequestTypeOK, Deps
<1>1. key'[q] = key[q] => \A c \in Request : key[c] = key[q] =>
          Flagged(held[c], f) /\ Flagged(outcome[c], f) /\ Flagged(cache[key[q]], f)
  BY <1>0 DEF AnswersFlagged, CacheFlagged
<1>2. Flagged(None, f)
  BY DEF Flagged, Payload
<1>3. key'[q] = key[q] => Flagged(Snapshot(key[q]), f)
  <2>1. key'[q] = key[q] => Snapshot(key[q])[f] = index[f]
    BY <1>0 DEF Snapshot
  <2>2. index \in Payload
    BY DEF ProxyTypeOK, WorldTypeOK, Payload
  <2>. QED
    BY <1>0, <2>1, <2>2 DEF IndexFlagged, Flagged
<1>4. Flagged(held'[q], f)
  BY <1>1, <1>2, HeldChanges
<1>5. Flagged(outcome'[q], f)
  <2>1. CASE outcome'[q] \notin Payload
    BY <2>1 DEF Flagged
  <2>. QED
    BY <1>1, <1>3, <2>1, OutcomeChanges
<1>. QED
  BY <1>4, <1>5

\* Every step leaves the answers flagged that are behind: a request clears a flag
\* only when its own answer is new, and no other one holds an answer of that file.
LEMMA AnswersFlaggedStep ==
    ASSUME NEW Own \in SUBSET File, \A f \in Own : Private(f), AloneOn(Own),
           ProxyTypeOK, SFP!SFTypeOK, SFP!KeyIsolation, FlagAnnounced,
           IndexFlagged, CacheFlagged(Own), AnswersFlagged(Own), [Next]_vars
    PROVE  AnswersFlagged(Own)'
<1>. USE CacheProxyAssumption
<1>0. FlagTypeOK /\ \A k \in Key : Deps(k) \subseteq File
  BY DEF ProxyTypeOK, Deps
<1>1. \A q \in Request : key'[q] # None => Deps(key'[q]) \subseteq File
  BY <1>0, ProxyTypeStep DEF ProxyTypeOK, RequestTypeOK
<1>2. CASE UNCHANGED <<dirty, promised>> \/ (\E g \in File : MarkDirty(g)) \/ EvictTick
  <2>1. \A q \in Request : key'[q] # None => \A f \in Deps(key'[q]) \cap Own :
            Flagged(held'[q], f) /\ Flagged(outcome'[q], f)
    BY AnswersComeFlagged
  <2>. QED
    BY <1>0, <1>1, <1>2, <2>1, StaysFlagged DEF AnswersFlagged, Flagged, Deps
<1>3. ASSUME NEW r \in Request, NEW g \in File, ClearFlag(r, g)
      PROVE  AnswersFlagged(Own)'
  <2>1. SUFFICES ASSUME NEW q \in Request, key'[q] # None, NEW f \in Deps(key'[q]) \cap Own
                 PROVE  (Flagged(held[q], f) /\ Flagged(outcome[q], f))'
    BY DEF AnswersFlagged, Deps
  <2>2. Flagged(held'[q], f) /\ Flagged(outcome'[q], f)
    BY <2>1, AnswersComeFlagged
  <2>3. CASE dirty'[f] = dirty[f]
    BY <1>3, <2>2, <2>3, ClearsOneFlag, <1>0 DEF Flagged
  <2>4. CASE dirty'[f] # dirty[f]
    <3>1. f = g /\ g \in Deps(key[r]) /\ key[r] \in Key /\ Mtime[held[r][g]] >= promised[g]
      BY <1>0, <1>1, <1>3, <2>1, <2>4, ClearsOneFlag, ClearedAnswer, ClearedAnswerNew
    <3>2. key'[q] = key[q] /\ key[q] \in Key
      BY <1>3, <2>1 DEF ClearFlag, Done, ProxyTypeOK, RequestTypeOK
    <3>3. q = r
      BY <2>1, <3>1, <3>2, CacheProxyAssumption DEF Private, AloneOn
    <3>4. outcome'[r] = None /\ held'[r] \in {held[r], None}
      BY <1>3 DEF ClearFlag, Done, sfVars, ProxyTypeOK, RequestTypeOK, RequestOK, SFP!SFTypeOK
    <3>5. UNCHANGED promised
      BY <1>3 DEF ClearFlag
    <3>. QED
      BY <1>0, <3>1, <3>3, <3>4, <3>5 DEF Flagged, FlagTypeOK, Payload
  <2>. QED
    BY <2>3, <2>4
<1>. QED
  BY <1>2, <1>3, FlagChanges

\* The entry of a request that is about to clear flags is not put in by another one.
LEMMA ClearsForEntryStep ==
    ASSUME NEW Own \in SUBSET File, ProxyTypeOK, AloneOn(Own), ClearsForEntry(Own), [Next]_vars
    PROVE  ClearsForEntry(Own)'
<1>. SUFFICES ASSUME NEW q \in Request, pc'[q] = "clear", Deps(key'[q]) \cap Own # {}
              PROVE  cache'[key'[q]] \in {None, held'[q]}
  BY DEF ClearsForEntry
<1>0. /\ key \in [Request -> Key \cup {None}]
      /\ held \in [Request -> Payload \cup {None}]
      /\ pc \in [Request -> PCs]
      /\ cache \in [Key -> Payload \cup {None}]
      /\ pc[q] # "idle" => key[q] \in Key
  BY DEF ProxyTypeOK, RequestTypeOK, RequestOK, StoreTypeOK
<1>1. CASE Insert(q)
  <2>1. pc[q] = "insert" /\ cache' = [cache EXCEPT ![key[q]] = held[q]]
    BY <1>1 DEF Insert
  <2>2. UNCHANGED <<key, held>>
    BY <1>0, <1>1 DEF Insert, Done
  <2>. QED
    BY <1>0, <2>1, <2>2
<1>2. CASE pc[q] = "clear" /\ UNCHANGED <<key[q], held[q]>>
  <2>1. cache[key[q]] \in {None, held[q]}
    BY <1>2 DEF ClearsForEntry
  <2>2. ~ \E r \in Request : Insert(r) /\ key[r] = key[q]
    BY <1>0, <1>2, CacheProxyAssumption DEF Insert, AloneOn
  <2>. QED
    BY <1>0, <1>2, <2>1, <2>2, CacheChanges
<1>. QED
  BY <1>1, <1>2, ClearComes

FreshSafe(Own) == ProxyInv /\ FreshInv(Own)

LEMMA FreshInit == ASSUME NEW Own \in SUBSET File PROVE Init => FreshSafe(Own)
<1>. SUFFICES ASSUME Init PROVE FreshInv(Own)
  BY ProxyInitInv DEF FreshSafe
<1>1. Init /\ ProxyTypeOK
  BY ProxyInitInv DEF ProxyInv
<1>. QED
  BY <1>1, CacheProxyAssumption
     DEF ProxyTypeOK, WorldTypeOK, FreshInv, FlagAnnounced, IndexFlagged, CacheFlagged,
         AnswersFlagged, ClearsForEntry, Flagged, Init, Payload

LEMMA FreshStep ==
    ASSUME MonotoneMtime, NEW Own \in SUBSET File, \A f \in Own : Private(f),
           AloneOn(Own), SFP!KeyIsolation, FreshSafe(Own), [Next]_vars
    PROVE  FreshSafe(Own)'
BY ProxyInvStep, IndexFlaggedStep, CacheFlaggedStep, AnswersFlaggedStep, ClearsForEntryStep
   DEF FreshSafe, ProxyInv, FreshInv

\* Single-flight keeps the keys of the proxy's requests apart.
LEMMA FlightsApart == Spec => [](SFP!KeyIsolation)
<1>1. SFP!SFInv => SFP!KeyIsolation
  BY DEF SFP!SFInv
<1>. QED
  BY <1>1, UsesSingleFlight, FlightConstants, SFP!SingleFlightSafety, PTL

LEMMA FreshSafety ==
    ASSUME MonotoneMtime, NEW Own \in SUBSET File, \A f \in Own : Private(f)
    PROVE  Spec /\ []AloneOn(Own) => []FreshSafe(Own)
<1>. DEFINE Inv   == FreshSafe(Own)
            Alone == AloneOn(Own)
<1>1. Inv /\ Alone /\ SFP!KeyIsolation /\ [Next]_vars => Inv'
  BY FreshStep
<1>2. Init => Inv
  BY FreshInit
<1>. HIDE DEF Inv, Alone
<1>3. Spec /\ []Alone => []Inv
  BY <1>1, <1>2, FlightsApart, PTL DEF Spec
<1>. QED
  BY <1>3 DEF Inv, Alone

\* Only any_dirty passes over a file, and only if it has no flag.
LEMMA CleanScanIsScan ==
    ASSUME ProxyTypeOK, [Next]_vars, NEW r \in Request, NEW f \in File, CleanScan(r, f)
    PROVE  dirty[f] = None
<1>0. /\ pc \in [Request -> PCs]
      /\ todo \in [Request -> SUBSET File]
      /\ pc[r] = "scan" /\ pc'[r] = "scan" /\ todo'[r] # todo[r] /\ todo'[r] = todo[r] \ {f}
  BY DEF ProxyTypeOK, RequestTypeOK, CleanScan
<1>1. ASSUME NEW g \in File, Scan(r, g)
      PROVE  dirty[f] = None
  BY <1>0, <1>1 DEF Scan, ToFlight
<1>2. ASSUME NEW q \in Request, q # r, (\E k \in Key : Begin(q, k)) \/ RequestStep(q)
      PROVE  todo'[r] = todo[r]
  BY <1>0, <1>2 DEF RequestStep, Begin, ForwardNoCache, LookupFinds, LookupMisses, Scan, Hit,
     Forward, Flight, BackendAnswers, Take, Compare, Associate, Insert, ClearFlag, Done, ToFlight,
     reqVars
<1>3. ASSUME (\E k \in Key : Begin(r, k)) \/ RequestStep(r), ~ \E g \in File : Scan(r, g)
      PROVE  todo' = todo \/ pc'[r] # "scan"
  BY <1>0, <1>3 DEF RequestStep, Begin, ForwardNoCache, LookupFinds, LookupMisses, Hit,
     Forward, Flight, BackendAnswers, Take, Compare, Associate, Insert, ClearFlag, Done, reqVars
<1>4. ASSUME [Next]_vars, ~ \E q \in Request : (\E k \in Key : Begin(q, k)) \/ RequestStep(q)
      PROVE  todo' = todo
  BY <1>4 DEF Next, Write, Commit, Expire, FlagAges, DeadlinePasses, FreezeOrThaw, MarkDirty,
     InvalidateFiles, InvalidateWhere, Clear, EvictTick, reqVars, vars
<1>. QED
  BY <1>0, <1>1, <1>2, <1>3, <1>4

\* What an entry has of a file in Own, and a request about to pass over it.
LEMMA EntryFlagged ==
    ASSUME NEW Own \in SUBSET File, FreshSafe(Own), NEW k \in Key, NEW f \in Deps(k) \cap Own,
           Live(k), Mtime[cache[k][f]] < promised[f]
    PROVE  dirty[f] # None
<1>1. cache[k] \in Payload /\ promised[f] \in Nat
  BY CacheProxyAssumption
     DEF FreshSafe, ProxyInv, ProxyTypeOK, StoreTypeOK, FlagTypeOK, Live, Deps
<1>. QED
  BY <1>1, CacheProxyAssumption DEF FreshSafe, FreshInv, CacheFlagged, Flagged

LEMMA ScanFresh ==
    ASSUME NEW Own \in SUBSET File, FreshSafe(Own), [Next]_vars,
           NEW r \in Request, NEW f \in Own, CleanScan(r, f)
    PROVE  Mtime[held[r][f]] >= promised[f]
<1>. USE CacheProxyAssumption
<1>0. ProxyTypeOK
  BY DEF FreshSafe, ProxyInv
<1>1. /\ key[r] \in Key /\ f \in Deps(key[r])
      /\ held[r] \in Payload /\ promised[f] \in Nat
  BY <1>0 DEF CleanScan, ProxyTypeOK, RequestTypeOK, RequestOK, FlagTypeOK
<1>2. Mtime[held[r][f]] < promised[f] => dirty[f] = promised[f]
  BY <1>1 DEF FreshSafe, FreshInv, AnswersFlagged, Flagged
<1>3. dirty[f] = None
  BY <1>0, CleanScanIsScan
<1>. QED
  BY <1>1, <1>2, <1>3 DEF Payload

\* Files that belong to one key, requests for which do not overlap, are never found
\* clean in a payload older than a write whose /mark-dirty had been delivered when
\* any_dirty looked at it, whatever goes on with other keys and files meanwhile, as
\* long as later versions of a file do not have earlier modification times.
THEOREM OwnFilesFresh ==
    ASSUME MonotoneMtime, NEW Own \in SUBSET File, \A f \in Own : Private(f)
    PROVE  Spec /\ []AloneOn(Own) =>
             [][\A r \in Request, f \in Own : CleanScan(r, f) => Mtime[held[r][f]] >= promised[f]]_vars
<1>. DEFINE Inv   == FreshSafe(Own)
            Alone == AloneOn(Own)
            Fresh == \A r \in Request, f \in Own : CleanScan(r, f) => Mtime[held[r][f]] >= promised[f]
<1>1. Inv /\ [Next]_vars => [Fresh]_vars
  BY ScanFresh
<1>2. Spec /\ []Alone => []Inv
  BY FreshSafety
<1>. HIDE DEF Inv, Alone, Fresh
<1>3. Spec /\ []Alone => [][Fresh]_vars
  BY <1>1, <1>2, PTL DEF Spec
<1>. QED
  BY <1>3 DEF Alone, Fresh

\* An entry older than an announced write carries a flag, for any number of
\* requests, keys and files, as long as later versions of a file do not have earlier
\* modification times, no two keys depend on one file and no two requests for one
\* key overlap (handle, clear_if_caught_up, prune_older_than).
THEOREM StaleEntriesFlagged ==
    ASSUME MonotoneMtime, DisjointDeps
    PROVE  Spec /\ []AloneOn(File) => []StaleIsFlagged
<1>1. PICK Own \in SUBSET File : Own = File
  OBVIOUS
<1>. DEFINE Inv   == FreshSafe(Own)
            Alone == AloneOn(Own)
            All   == AloneOn(File)
<1>2. Inv => StaleIsFlagged
  <2>. SUFFICES ASSUME Inv, NEW k \in Key, NEW f \in Deps(k), Live(k),
                       Mtime[cache[k][f]] < promised[f]
                PROVE  dirty[f] # None
    BY DEF StaleIsFlagged
  <2>1. f \in Deps(k) \cap Own
    BY <1>1, CacheProxyAssumption DEF Deps
  <2>. QED
    BY <2>1, EntryFlagged
<1>3. \A f \in Own : Private(f)
  BY <1>1 DEF DisjointDeps
<1>4. Spec /\ []Alone => []Inv
  BY <1>3, FreshSafety
<1>5. All => Alone
  BY <1>1
<1>. HIDE DEF Inv, Alone, All
<1>6. Spec /\ []All => []StaleIsFlagged
  BY <1>2, <1>4, <1>5, PTL
<1>. QED
  BY <1>6 DEF All

\* Under the same conditions no clean hit at all serves a file older than such a write.
THEOREM HitsFresh ==
    ASSUME MonotoneMtime, DisjointDeps
    PROVE  Spec /\ []AloneOn(File) => HitFresh
<1>1. PICK Own \in SUBSET File : Own = File
  OBVIOUS
<1>. DEFINE Inv   == FreshSafe(Own)
            Alone == AloneOn(Own)
            All   == AloneOn(File)
            Fresh == \A r \in Request, f \in File : CleanScan(r, f) => Mtime[held[r][f]] >= promised[f]
<1>2. Inv /\ [Next]_vars => [Fresh]_vars
  BY <1>1, ScanFresh
<1>3. \A f \in Own : Private(f)
  BY <1>1 DEF DisjointDeps
<1>4. Spec /\ []Alone => []Inv
  BY <1>3, FreshSafety
<1>5. All => Alone
  BY <1>1
<1>. HIDE DEF Inv, Alone, All, Fresh
<1>6. Spec /\ []All => [][Fresh]_vars
  BY <1>2, <1>4, <1>5, PTL DEF Spec
<1>. QED
  BY <1>6 DEF All, Fresh, HitFresh

=============================================================================
