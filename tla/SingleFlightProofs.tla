------------------------- MODULE SingleFlightProofs -------------------------
(***************************************************************************)
(* Safety of SingleFlight for any number of callers, keys and channels.    *)
(* The invariant SFInv is inductive: AnswersOwnKey needs KeyIsolation (who *)
(* is served wants the leader's key), and KeyIsolation needs               *)
(* RegisteredHasLeader (a channel is registered under one key only).       *)
(***************************************************************************)
EXTENDS SingleFlight, TLAPS

SFInv == SFTypeOK /\ RegisteredHasLeader /\ KeyIsolation /\ AnswersOwnKey

\* No channel is registered under two keys.
LEMMA OneKeyPerChannel ==
    ASSUME RegisteredHasLeader, KeyIsolation,
           NEW k \in Key, NEW l \in Key, inflight[k] # None, inflight[k] = inflight[l]
    PROVE  k = l
<1>1. PICK c \in Caller : wants[c] = k /\ chan[c] = inflight[k]
  BY DEF RegisteredHasLeader
<1>2. wants[c] = l
  BY <1>1 DEF KeyIsolation
<1>. QED  BY <1>1, <1>2

LEMMA SFInitInv == SFInit => SFInv
BY SingleFlightAssumption
   DEF SFInit, SFInv, SFTypeOK, RegisteredHasLeader, KeyIsolation,
       AnswersOwnKey, Stages, LeadStages, Leads, Waits

\* Every step keeps the types and the presence of the values in each stage.
LEMMA TypeStep ==
    ASSUME SFTypeOK, [SFNext]_sfVars
    PROVE  SFTypeOK'
<1>. USE SingleFlightAssumption DEF SFTypeOK, Stages, LeadStages, Leads, Waits
<1>1. ASSUME NEW c \in Caller, NEW k \in Key, Call(c, k)
      PROVE  SFTypeOK'
  BY <1>1 DEF Call
<1>2. ASSUME NEW c \in Caller, Join(c)
      PROVE  SFTypeOK'
  BY <1>2 DEF Join
<1>3. ASSUME NEW c \in Caller, Elect(c)
      PROVE  SFTypeOK'
  BY <1>3 DEF Elect, FreeChannels
<1>4. ASSUME NEW c \in Caller, Publish(c)
      PROVE  SFTypeOK'
  BY <1>4 DEF Publish, Served
<1>5. ASSUME NEW c \in Caller, Release(c)
      PROVE  SFTypeOK'
  BY <1>5 DEF Release
<1>6. ASSUME NEW c \in Caller, RecvClosed(c)
      PROVE  SFTypeOK'
  BY <1>6 DEF RecvClosed, Answers
<1>7. ASSUME NEW c \in Caller, NEW o \in Answers, Finish(c, o)
      PROVE  SFTypeOK'
  BY <1>7 DEF Finish, Answers
<1>8. ASSUME NEW c \in Caller, Abandon(c)
      PROVE  SFTypeOK'
  BY <1>8 DEF Abandon
<1>9. ASSUME NEW c \in Caller, Return(c)
      PROVE  SFTypeOK'
  BY <1>9 DEF Return
<1>10. CASE UNCHANGED sfVars
  BY <1>10 DEF sfVars
<1>. QED
  BY <1>1, <1>2, <1>3, <1>4, <1>5, <1>6, <1>7, <1>8, <1>9, <1>10 DEF SFNext, FlightStep

\* Every step leaves each registered key with a leader.
LEMMA LeaderStep ==
    ASSUME SFTypeOK, RegisteredHasLeader, [SFNext]_sfVars
    PROVE  RegisteredHasLeader'
<1>. USE SingleFlightAssumption DEF SFTypeOK, RegisteredHasLeader, LeadStages, Leads, Waits
<1>1. ASSUME NEW c \in Caller, NEW k \in Key, Call(c, k)
      PROVE  RegisteredHasLeader'
  BY <1>1 DEF Call
<1>2. ASSUME NEW c \in Caller, Join(c)
      PROVE  RegisteredHasLeader'
  BY <1>2 DEF Join
<1>3. ASSUME NEW c \in Caller, Elect(c)
      PROVE  RegisteredHasLeader'
  BY <1>3 DEF Elect, FreeChannels
<1>4. ASSUME NEW c \in Caller, Publish(c)
      PROVE  RegisteredHasLeader'
  BY <1>4 DEF Publish, Served
<1>5. ASSUME NEW c \in Caller, Release(c)
      PROVE  RegisteredHasLeader'
  BY <1>5 DEF Release
<1>6. ASSUME NEW c \in Caller, RecvClosed(c)
      PROVE  RegisteredHasLeader'
  BY <1>6 DEF RecvClosed
<1>7. ASSUME NEW c \in Caller, NEW o \in Answers, Finish(c, o)
      PROVE  RegisteredHasLeader'
  BY <1>7 DEF Finish
<1>8. ASSUME NEW c \in Caller, Abandon(c)
      PROVE  RegisteredHasLeader'
  BY <1>8 DEF Abandon
<1>9. ASSUME NEW c \in Caller, Return(c)
      PROVE  RegisteredHasLeader'
  BY <1>9 DEF Return
<1>10. CASE UNCHANGED sfVars
  BY <1>10 DEF sfVars
<1>. QED
  BY <1>1, <1>2, <1>3, <1>4, <1>5, <1>6, <1>7, <1>8, <1>9, <1>10 DEF SFNext, FlightStep

\* Every step keeps the parties of a channel on one key.
LEMMA IsolationStep ==
    ASSUME SFTypeOK, RegisteredHasLeader, KeyIsolation, [SFNext]_sfVars
    PROVE  KeyIsolation'
<1>. USE SingleFlightAssumption DEF SFTypeOK, KeyIsolation, LeadStages, Leads, Waits
<1>1. ASSUME NEW c \in Caller, NEW k \in Key, Call(c, k)
      PROVE  KeyIsolation'
  BY <1>1 DEF Call
<1>2. ASSUME NEW c \in Caller, Join(c)
      PROVE  KeyIsolation'
  BY <1>2, OneKeyPerChannel DEF Join
<1>3. ASSUME NEW c \in Caller, Elect(c)
      PROVE  KeyIsolation'
  BY <1>3, OneKeyPerChannel DEF Elect, FreeChannels
<1>4. ASSUME NEW c \in Caller, Publish(c)
      PROVE  KeyIsolation'
  BY <1>4 DEF Publish, Served
<1>5. ASSUME NEW c \in Caller, Release(c)
      PROVE  KeyIsolation'
  BY <1>5 DEF Release
<1>6. ASSUME NEW c \in Caller, RecvClosed(c)
      PROVE  KeyIsolation'
  BY <1>6 DEF RecvClosed
<1>7. ASSUME NEW c \in Caller, NEW o \in Answers, Finish(c, o)
      PROVE  KeyIsolation'
  BY <1>7 DEF Finish
<1>8. ASSUME NEW c \in Caller, Abandon(c)
      PROVE  KeyIsolation'
  BY <1>8 DEF Abandon
<1>9. ASSUME NEW c \in Caller, Return(c)
      PROVE  KeyIsolation'
  BY <1>9 DEF Return
<1>10. CASE UNCHANGED sfVars
  BY <1>10 DEF sfVars
<1>. QED
  BY <1>1, <1>2, <1>3, <1>4, <1>5, <1>6, <1>7, <1>8, <1>9, <1>10 DEF SFNext, FlightStep

\* Every step leaves each caller with an answer of its own key, or none.
LEMMA AnswerStep ==
    ASSUME SFTypeOK, KeyIsolation, AnswersOwnKey, [SFNext]_sfVars
    PROVE  AnswersOwnKey'
<1>. USE SingleFlightAssumption DEF SFTypeOK, AnswersOwnKey, LeadStages, Leads, Waits
<1>1. ASSUME NEW c \in Caller, NEW k \in Key, Call(c, k)
      PROVE  AnswersOwnKey'
  BY <1>1 DEF Call
<1>2. ASSUME NEW c \in Caller, Join(c)
      PROVE  AnswersOwnKey'
  BY <1>2 DEF Join
<1>3. ASSUME NEW c \in Caller, Elect(c)
      PROVE  AnswersOwnKey'
  BY <1>3 DEF Elect
<1>4. ASSUME NEW c \in Caller, Publish(c)
      PROVE  AnswersOwnKey'
  BY <1>4 DEF Publish, Served, KeyIsolation
<1>5. ASSUME NEW c \in Caller, Release(c)
      PROVE  AnswersOwnKey'
  BY <1>5 DEF Release
<1>6. ASSUME NEW c \in Caller, RecvClosed(c)
      PROVE  AnswersOwnKey'
  BY <1>6 DEF RecvClosed
<1>7. ASSUME NEW c \in Caller, NEW o \in Answers, Finish(c, o)
      PROVE  AnswersOwnKey'
  BY <1>7 DEF Finish
<1>8. ASSUME NEW c \in Caller, Abandon(c)
      PROVE  AnswersOwnKey'
  BY <1>8 DEF Abandon
<1>9. ASSUME NEW c \in Caller, Return(c)
      PROVE  AnswersOwnKey'
  BY <1>9 DEF Return
<1>10. CASE UNCHANGED sfVars
  BY <1>10 DEF sfVars
<1>. QED
  BY <1>1, <1>2, <1>3, <1>4, <1>5, <1>6, <1>7, <1>8, <1>9, <1>10 DEF SFNext, FlightStep

\* Singleflight never mixes keys and never leaves a key registered without
\* somebody who will remove it, for any number of callers (do_or_join).
THEOREM SingleFlightSafety == SFSpec => []SFInv
<1>1. SFInit => SFInv
  BY SFInitInv
<1>2. SFInv /\ [SFNext]_sfVars => SFInv'
  BY TypeStep, LeaderStep, IsolationStep, AnswerStep DEF SFInv
<1>. QED
  BY <1>1, <1>2, PTL DEF SFSpec

\* The type invariant, with what is present in which stage of do_or_join.
THEOREM SingleFlightTypeCorrect == SFSpec => []SFTypeOK
BY SingleFlightSafety, PTL DEF SFInv

\* The map of flights has no orphan entry (InflightGuard::drop).
THEOREM RegisteredAlwaysHasLeader == SFSpec => []RegisteredHasLeader
BY SingleFlightSafety, PTL DEF SFInv

\* Every result handed out by do_or_join is one of the caller's own key.
THEOREM AnswersAlwaysOwnKey == SFSpec => []AnswersOwnKey
BY SingleFlightSafety, PTL DEF SFInv

-----------------------------------------------------------------------------
(* SingleFlight implements Flight: a step on the map alone is no step there. *)

Role == [c \in Caller |-> RoleAt[stage[c]]]
On == [c \in Caller |-> LeadersOf(c)]

\* The parts of Flight, stage by stage.
LEMMA Roles ==
    /\ RoleAt["idle"] = "out"       /\ RoleAt["join"] = "new"        /\ RoleAt["elect"] = "new"
    /\ RoleAt["lead"] = "runs"      /\ RoleAt["publish"] = "answers" /\ RoleAt["release"] = "shared"
    /\ RoleAt["wait"] = "waits"     /\ RoleAt["returned"] = "done"
BY DEF RoleAt

\* A caller that changes its stage changes its part and nobody else's.
LEMMA RoleChanges ==
    ASSUME SFTypeOK, NEW c \in Caller, NEW s \in Stages, stage' = [stage EXCEPT ![c] = s]
    PROVE  Role' = [Role EXCEPT ![c] = RoleAt[s]]
BY DEF SFTypeOK, Role

\* Nobody's leaders change when channels do not, nor who leads and who waits.
LEMMA OnStays ==
    ASSUME SFTypeOK, UNCHANGED chan,
           \A c \in Caller : Leads(c)' = Leads(c) /\ Waits(c)' = Waits(c)
    PROVE  On' = On
BY DEF On, LeadersOf

LEMMA CallRefines ==
    ASSUME SFInv, NEW c \in Caller, NEW k \in Key, Call(c, k)
    PROVE  Promise!Call(c, k)
<1>1. stage[c] = "idle" /\ stage' = [stage EXCEPT ![c] = "join"]
  BY DEF Call
<1>2. Role[c] = "out" /\ Role' = [Role EXCEPT ![c] = "new"]
  BY <1>1, Roles, RoleChanges DEF SFInv, Role, Stages
<1>3. On' = On
  BY <1>1, OnStays DEF SFInv, SFTypeOK, Call, Leads, Waits, LeadStages
<1>. QED
  BY <1>2, <1>3 DEF Call, Promise!Call, Promise!Turns, Role, On

\* A look-up that finds no flight is no step of Flight; one that finds a flight
\* counts on its leaders, of whom there is one.
LEMMA JoinRefines ==
    ASSUME SFInv, NEW c \in Caller, Join(c)
    PROVE  UNCHANGED <<Role, wants, outcome, On>> \/ Promise!Wait(c)
<1>. USE DEF SFInv
<1>0. stage[c] = "join" /\ wants[c] \in Key /\ Role[c] = "new"
  BY Roles DEF Join, Role, SFTypeOK
<1>1. CASE inflight[wants[c]] = None
  <2>1. stage' = [stage EXCEPT ![c] = "elect"] /\ chan' = chan
    BY <1>0, <1>1 DEF Join, Leads, Waits, LeadStages, SFTypeOK
  <2>2. Role' = Role
    BY <1>0, <2>1, Roles DEF Role, SFTypeOK
  <2>3. On' = On
    BY <1>0, <2>1, OnStays DEF Leads, Waits, LeadStages
  <2>. QED
    BY <2>2, <2>3 DEF Join
<1>2. CASE inflight[wants[c]] # None
  <2>1. stage' = [stage EXCEPT ![c] = "wait"] /\ chan' = [chan EXCEPT ![c] = inflight[wants[c]]]
    BY <1>0, <1>2 DEF Join, SFTypeOK
  <2>2. Role' = [Role EXCEPT ![c] = "waits"]
    BY <2>1, Roles, RoleChanges DEF Stages
  <2>. DEFINE R == {d \in Caller : Leads(d) /\ chan[d] = inflight[wants[c]]}
  <2>3. R # {}
    BY <1>0, <1>2 DEF RegisteredHasLeader, SFTypeOK
  <2>4. R \subseteq {d \in Caller : wants[d] = wants[c] /\ Role[d] \in {"runs", "answers", "shared"}}
    BY <1>0, <1>2, Roles DEF KeyIsolation, Role, Leads, LeadStages, SFTypeOK
  <2>5. On' = [On EXCEPT ![c] = R]
    <3>1. \A d \in Caller : Leads(d)' = Leads(d) /\ (Leads(d) => chan'[d] = chan[d])
      BY <1>0, <2>1 DEF Leads, LeadStages, SFTypeOK
    <3>2. LeadersOf(c)' = R
      BY <2>1, <3>1 DEF LeadersOf, Waits, SFTypeOK
    <3>3. \A d \in Caller \ {c} : LeadersOf(d)' = LeadersOf(d)
      BY <2>1, <3>1 DEF LeadersOf, Waits, SFTypeOK
    <3>. QED
      BY <3>2, <3>3 DEF On
  <2>6. R \in SUBSET Promise!Running(wants[c])
    BY <2>4 DEF Promise!Running, Role, SFTypeOK
  <2>. QED
    BY <1>0, <2>2, <2>3, <2>5, <2>6 DEF Join, Promise!Wait, Promise!Turns, Role, On
<1>. QED
  BY <1>1, <1>2

\* A second leader of a flight is one more whom its followers count on.
LEMMA ElectRefines ==
    ASSUME SFInv, NEW c \in Caller, Elect(c)
    PROVE  Promise!Run(c)
<1>. USE DEF SFInv
<1>0. /\ stage[c] = "elect" /\ wants[c] \in Key /\ Role[c] = "new"
      /\ stage' = [stage EXCEPT ![c] = "lead"]
  BY Roles DEF Elect, Role, SFTypeOK
<1>1. Role' = [Role EXCEPT ![c] = "runs"]
  BY <1>0, Roles, RoleChanges DEF Stages
<1>2. PICK ch \in IF inflight[wants[c]] = None THEN FreeChannels ELSE {inflight[wants[c]]} :
          chan' = [chan EXCEPT ![c] = ch]
  BY DEF Elect, SFTypeOK
<1>. DEFINE S == {d \in Caller : Waits(d) /\ chan[d] = ch}
<1>3. S \subseteq {d \in Caller : wants[d] = wants[c] /\ Role[d] = "waits"}
  BY <1>0, <1>2, Roles DEF FreeChannels, KeyIsolation, Role, Waits, SFTypeOK
<1>4. On' = [d \in Caller |-> IF d \in S THEN On[d] \cup {c} ELSE On[d]]
  <2>1. \A d \in Caller : Waits(d)' = Waits(d) /\ (Waits(d) => d # c /\ chan'[d] = chan[d])
    BY <1>0, <1>2 DEF Waits, SFTypeOK
  <2>2. \A e \in Caller : Leads(e)' = (Leads(e) \/ e = c) /\ (Leads(e) => e # c /\ chan'[e] = chan[e])
    BY <1>0, <1>2 DEF Leads, LeadStages, SFTypeOK
  <2>3. chan'[c] = ch
    BY <1>2 DEF SFTypeOK
  <2>4. \A d, e \in Caller :
            Waits(d)' /\ Leads(e)' /\ chan'[e] = chan'[d]
               <=> (Waits(d) /\ Leads(e) /\ chan[e] = chan[d]) \/ (d \in S /\ e = c)
    BY <2>1, <2>2, <2>3
  <2>5. \A d \in Caller : LeadersOf(d)' = IF d \in S THEN LeadersOf(d) \cup {c} ELSE LeadersOf(d)
    BY <2>4 DEF LeadersOf
  <2>. QED
    BY <2>5 DEF On
<1>5. S \in SUBSET Promise!Waiting(wants[c])
  BY <1>3 DEF Promise!Waiting, Role, SFTypeOK
<1>. HIDE DEF S
<1>. QED
  BY <1>0, <1>1, <1>4, <1>5 DEF Elect, Promise!Run, Promise!Turns, Role, On

LEMMA FinishRefines ==
    ASSUME SFInv, NEW c \in Caller, NEW o, Finish(c, o)
    PROVE  o \in Outcome[wants[c]] /\ wants[c] \in Key /\ Promise!Answer(c, o)
<1>1. stage[c] = "lead" /\ stage' = [stage EXCEPT ![c] = "publish"]
  BY DEF Finish
<1>2. Role[c] = "runs" /\ Role' = [Role EXCEPT ![c] = "answers"]
  BY <1>1, Roles, RoleChanges DEF SFInv, Role, Stages
<1>3. On' = On
  BY <1>1, OnStays DEF SFInv, SFTypeOK, Finish, Leads, Waits, LeadStages
<1>4. wants[c] \in Key
  BY <1>1 DEF SFInv, SFTypeOK
<1>. QED
  BY <1>2, <1>3, <1>4 DEF Finish, Promise!Answer, Promise!Turns, Role, On

\* Those whom a broadcast reaches are those who count on the leader.
LEMMA PublishRefines ==
    ASSUME SFInv, NEW c \in Caller, Publish(c)
    PROVE  Promise!Share(c)
<1>. USE DEF SFInv
<1>. DEFINE served == {d \in Caller : c \in On[d]}
<1>0. stage[c] = "publish" /\ Role[c] = "answers"
  BY Roles DEF Publish, Role, SFTypeOK
<1>1. \A d \in Caller : d \in served <=> Served(c, d)
  BY <1>0 DEF On, LeadersOf, Served, Leads, LeadStages, SFTypeOK
<1>2. Role' = [d \in Caller |-> IF d = c THEN "shared" ELSE IF d \in served THEN "done" ELSE Role[d]]
  BY <1>1, Roles DEF Publish, Role, SFTypeOK
<1>3. outcome' = [d \in Caller |-> IF d \in served THEN outcome[c] ELSE outcome[d]]
  BY <1>1 DEF Publish, SFTypeOK
<1>4. On' = [d \in Caller |-> IF d \in served THEN {} ELSE On[d]]
  <2>1. \A d \in Caller : Waits(d)' = (Waits(d) /\ d \notin served)
    BY <1>0, <1>1 DEF Publish, Served, Waits, SFTypeOK
  <2>2. \A d \in Caller : Leads(d)' = Leads(d)
    BY <1>0 DEF Publish, Served, Waits, Leads, LeadStages, SFTypeOK
  <2>3. \A d \in Caller : d \notin served => chan'[d] = chan[d]
    BY <1>1 DEF Publish, SFTypeOK
  <2>4. \A d \in Caller : Leads(d) => chan'[d] = chan[d]
    BY DEF Publish, Served, Waits, Leads, LeadStages, SFTypeOK
  <2>5. \A d \in Caller : LeadersOf(d)' = IF d \in served THEN {} ELSE LeadersOf(d)
    BY <2>1, <2>2, <2>3, <2>4 DEF LeadersOf, SFTypeOK
  <2>. QED
    BY <2>5 DEF On
<1>5. UNCHANGED wants
  BY DEF Publish, SFTypeOK
<1>. HIDE DEF SFInv
<1>. QED
  BY <1>0, <1>2, <1>3, <1>4, <1>5 DEF Promise!Share, Role, On

LEMMA ReleaseRefines ==
    ASSUME SFInv, NEW c \in Caller, Release(c)
    PROVE  Promise!Finish(c)
<1>1. /\ stage[c] = "release" /\ stage' = [stage EXCEPT ![c] = "returned"]
      /\ chan' = [chan EXCEPT ![c] = None]
  BY DEF Release
<1>2. Role[c] = "shared" /\ Role' = [Role EXCEPT ![c] = "done"]
  BY <1>1, Roles, RoleChanges DEF SFInv, Role, Stages
<1>3. On' = [d \in Caller |-> On[d] \ {c}]
  <2>1. \A d \in Caller : /\ Waits(d)' = Waits(d) /\ (Waits(d) => chan'[d] = chan[d])
                          /\ Leads(d)' = (Leads(d) /\ d # c) /\ (d # c => chan'[d] = chan[d])
    BY <1>1 DEF SFInv, SFTypeOK, Leads, Waits, LeadStages
  <2>2. \A d \in Caller : LeadersOf(d)' = LeadersOf(d) \ {c}
    BY <2>1 DEF LeadersOf
  <2>. QED
    BY <2>2 DEF On
<1>. QED
  BY <1>2, <1>3 DEF Release, Promise!Finish, Promise!Turns, Promise!Forsaken, Role, On

\* The channel is closed for a follower only when it counts on nobody.
LEMMA RecvClosedRefines ==
    ASSUME SFInv, NEW c \in Caller, RecvClosed(c)
    PROVE  Promise!Lose(c)
<1>1. /\ stage[c] = "wait" /\ stage' = [stage EXCEPT ![c] = "returned"]
      /\ chan' = [chan EXCEPT ![c] = None]
  BY DEF RecvClosed, Waits
<1>2. Role[c] = "waits" /\ Role' = [Role EXCEPT ![c] = "done"]
  BY <1>1, Roles, RoleChanges DEF SFInv, Role, Stages
<1>3. On[c] = {}
  BY DEF On, LeadersOf, RecvClosed, HasSender
<1>4. On' = On
  <2>1. \A d \in Caller : /\ Waits(d)' = (Waits(d) /\ d # c) /\ (d # c => chan'[d] = chan[d])
                          /\ Leads(d)' = Leads(d) /\ (Leads(d) => d # c)
    BY <1>1 DEF SFInv, SFTypeOK, Leads, Waits, LeadStages
  <2>2. \A d \in Caller : LeadersOf(d)' = LeadersOf(d)
    BY <1>3, <2>1 DEF LeadersOf, On
  <2>. QED
    BY <2>2 DEF On
<1>. QED
  BY <1>2, <1>3, <1>4 DEF RecvClosed, Promise!Lose, Promise!Turns, Role, On

LEMMA AbandonRefines ==
    ASSUME SFInv, NEW c \in Caller, Abandon(c)
    PROVE  Promise!Leave(c)
<1>1. /\ stage[c] \in {"lead", "wait"} /\ stage' = [stage EXCEPT ![c] = "idle"]
      /\ chan' = [chan EXCEPT ![c] = None]
  BY DEF Abandon
<1>2. Role[c] \in {"runs", "waits"} /\ Role' = [Role EXCEPT ![c] = "out"]
  BY <1>1, Roles, RoleChanges DEF SFInv, Role, Stages
<1>3. On' = [[d \in Caller |-> On[d] \ {c}] EXCEPT ![c] = {}]
  <2>1. \A d \in Caller : /\ Waits(d)' = (Waits(d) /\ d # c) /\ (d # c => chan'[d] = chan[d])
                          /\ Leads(d)' = (Leads(d) /\ d # c)
    BY <1>1 DEF SFInv, SFTypeOK, Leads, Waits, LeadStages
  <2>2. \A d \in Caller : LeadersOf(d)' = IF d = c THEN {} ELSE LeadersOf(d) \ {c}
    BY <2>1 DEF LeadersOf
  <2>. QED
    BY <2>2 DEF On
<1>. QED
  BY <1>2, <1>3 DEF Abandon, Promise!Leave, Promise!Forsaken, Role, On

LEMMA ReturnRefines ==
    ASSUME SFInv, NEW c \in Caller, Return(c)
    PROVE  Promise!Return(c)
<1>1. stage[c] = "returned" /\ stage' = [stage EXCEPT ![c] = "idle"]
  BY DEF Return
<1>2. Role[c] = "done" /\ Role' = [Role EXCEPT ![c] = "out"]
  BY <1>1, Roles, RoleChanges DEF SFInv, Role, Stages
<1>3. On' = On
  BY <1>1, OnStays DEF SFInv, SFTypeOK, Return, Leads, Waits, LeadStages
<1>. QED
  BY <1>2, <1>3 DEF Return, Promise!Return, Promise!Turns, Role, On

\* do_or_join implements Flight, for any number of callers, keys and channels: each
\* step on the map and the channels is a step of Flight or none.
THEOREM SingleFlightImplements == SFSpec => ImplementsFlight
<1>1. SFInit => Promise!Init
  BY Roles DEF SFInit, Promise!Init, LeadersOf, Waits
<1>2. SFInv /\ [SFNext]_sfVars => [Promise!Next]_(Promise!flightVars)
  <2>. SUFFICES ASSUME SFInv, [SFNext]_sfVars
                PROVE  Promise!Next \/ UNCHANGED Promise!flightVars
    OBVIOUS
  <2>. USE DEF Promise!Next
  <2>1. ASSUME NEW c \in Caller, NEW k \in Key, Call(c, k)
        PROVE  Promise!Next
    BY <2>1, CallRefines
  <2>2. ASSUME NEW c \in Caller, Join(c)
        PROVE  Promise!Next \/ UNCHANGED Promise!flightVars
    BY <2>2, JoinRefines DEF Promise!flightVars, Role, On
  <2>3. ASSUME NEW c \in Caller, Elect(c)
        PROVE  Promise!Next
    BY <2>3, ElectRefines
  <2>4. ASSUME NEW c \in Caller, Publish(c)
        PROVE  Promise!Next
    BY <2>4, PublishRefines
  <2>5. ASSUME NEW c \in Caller, Release(c)
        PROVE  Promise!Next
    BY <2>5, ReleaseRefines
  <2>6. ASSUME NEW c \in Caller, RecvClosed(c)
        PROVE  Promise!Next
    BY <2>6, RecvClosedRefines
  <2>7. ASSUME NEW c \in Caller, NEW o \in Answers, Finish(c, o)
        PROVE  Promise!Next
    BY <2>7, FinishRefines
  <2>8. ASSUME NEW c \in Caller, Abandon(c)
        PROVE  Promise!Next
    BY <2>8, AbandonRefines
  <2>9. ASSUME NEW c \in Caller, Return(c)
        PROVE  Promise!Next
    BY <2>9, ReturnRefines
  <2>10. CASE UNCHANGED sfVars
    BY <2>10 DEF sfVars, Promise!flightVars, LeadersOf, Leads, Waits
  <2>. QED
    BY <2>1, <2>2, <2>3, <2>4, <2>5, <2>6, <2>7, <2>8, <2>9, <2>10 DEF SFNext, FlightStep
<1>. QED
  BY <1>1, <1>2, SingleFlightSafety, PTL DEF SFSpec, ImplementsFlight, Promise!Spec

=============================================================================
