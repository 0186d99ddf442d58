----------------------------- MODULE Rails_proofs -----------------------------
(* Theorems about Rails for any number of requests, blockers, config keys and versions,   *)
(* for all three kinds of rail and for any number of deaths.                              *)
EXTENDS Rails, FiniteSetTheorems, WellFoundedInduction, TLAPS

-----------------------------------------------------------------------------
(* The highest of a set of versions *)

\* A set of versions has a greatest one: the one with the least set of versions from it on.
LEMMA HasHighest ==
    ASSUME NEW S \in SUBSET Version, S # {}
    PROVE  \E v \in S : \A w \in S : w =< v
<1> DEFINE From(x) == {w \in S : w >= x}
           T == {From(x) : x \in S}
<1>1. IsFiniteSet(S)
  <2>1. IsFiniteSet(1 .. MaxVersion)
    BY RailsBoundsAssumption, FS_Interval
  <2> QED
    BY <2>1, FS_Subset DEF Version
<1>2. IsWellFoundedOn(StrictSubsetOrdering(S), SUBSET S)
  BY <1>1, FS_StrictSubsetOrderingWellFounded, FS_FiniteSubsetsOfFinite
<1>3. T \subseteq SUBSET S /\ T # {}
  OBVIOUS
<1>4. \E A \in T : \A B \in T : <<B, A>> \notin StrictSubsetOrdering(S)
  <2> HIDE DEF T
  <2> QED
    BY <1>2, <1>3, WFMin
<1>5. PICK v \in S : \A B \in T : <<B, From(v)>> \notin StrictSubsetOrdering(S)
  BY <1>4
<1>6. ASSUME NEW w \in S, w > v
      PROVE  FALSE
  <2>1. S \subseteq Int /\ v \in Int /\ w \in Int
    BY DEF Version
  <2>2. From(w) \subseteq From(v) /\ v \in From(v) /\ v \notin From(w)
    <3>1. \A x \in S : x >= w => x >= v
      BY <1>6, <2>1
    <3>2. v >= v /\ ~(v >= w)
      BY <1>6, <2>1
    <3> QED
      BY <3>1, <3>2
  <2>3. <<From(w), From(v)>> \in StrictSubsetOrdering(S)
    BY <2>2 DEF StrictSubsetOrdering
  <2> QED
    BY <1>5, <2>3
<1> QED
  BY <1>6 DEF Version

LEMMA HighestIsHighest ==
    ASSUME NEW S \in SUBSET Version
    PROVE  Highest(S) \in Int /\ \A v \in S : v =< Highest(S)
<1>1. CASE S = {}
  BY <1>1 DEF Highest
<1>2. CASE S # {}
  <2>1. \E v \in S : \A w \in S : w =< v
    BY <1>2, HasHighest
  <2>2. Highest(S) = CHOOSE v \in S : \A w \in S : w =< v
    BY <1>2 DEF Highest
  <2>3. Highest(S) \in S /\ \A w \in S : w =< Highest(S)
    BY <2>1, <2>2
  <2> QED
    BY <2>3, S \subseteq Int DEF Version
<1> QED
  BY <1>1, <1>2

-----------------------------------------------------------------------------
(* Types *)

LEMMA InitType == RailsInit => RailsTypeOK
<1> SUFFICES ASSUME RailsInit PROVE RailsTypeOK
  OBVIOUS
<1>1. 1 \in Version /\ serial \in 0 .. MaxVersion
  BY RailsBoundsAssumption DEF RailsInit, Version
<1> QED
  BY <1>1 DEF RailsInit, RailsTypeOK, Operation

\* What a transaction sees of a version is a status.
LEMMA SeesType ==
    ASSUME RailsTypeOK, NEW r \in Request, NEW v \in Version
    PROVE  Sees(r, v) \in {"absent", "draft", "published"}
BY DEF RailsTypeOK, Sees

LEMMA RollBackType ==
    ASSUME RailsTypeOK, NEW r \in Request, RollBack(r),
           told' \subseteq Request, dead' \subseteq Request
    PROVE  RailsTypeOK'
BY DEF RailsTypeOK, RollBack, RailsGoto, ReleaseAll, configVars

LEMMA RailType ==
    ASSUME RailsTypeOK, NEW r \in Request,
           \/ StartRequest(r) \/ SeedIfFresh(r) \/ ReadActive(r) \/ CreateDraft(r)
           \/ PassBlockerGate(r) \/ PassConfigGate(r) \/ ClaimPublish(r)
    PROVE  RailsTypeOK'
<1> USE DEF versionVars, configVars, blockerVars, RailsGoto, Answer, Take
<1>1. CASE StartRequest(r)
  <2>1. PICK o \in Operation :
          /\ does' = [does EXCEPT ![r] = o]
          /\ step' = [step EXCEPT ![r] = IF o \in {"read", "draft", "publish"} /\ MustSeed(r)
                                         THEN "seeding" ELSE First(o)]
          /\ \E v \in IF o = "publish" THEN Version ELSE {1} : target' = [target EXCEPT ![r] = v]
          /\ \E k \in IF o \in {"merge", "replace"} THEN SUBSET Key ELSE {{}} :
                patch' = [patch EXCEPT ![r] = k]
    BY <1>1 DEF StartRequest
  <2>2. First(o) \in {"gating", "working"}
    BY DEF First
  <2>3. step' \in [Request -> {"new", "seeding", "working", "gating", "configuring", "claiming",
                               "committing", "done"}]
    BY <2>1, <2>2 DEF RailsTypeOK
  <2>4. does' \in [Request -> Operation]
    BY <2>1 DEF RailsTypeOK
  <2>5. target' \in [Request -> Version]
    BY <2>1, RailsBoundsAssumption DEF RailsTypeOK, Version
  <2>6. patch' \in [Request -> SUBSET Key]
    BY <2>1 DEF RailsTypeOK
  <2> QED
    BY <1>1, <2>3, <2>4, <2>5, <2>6 DEF StartRequest, RailsTypeOK
<1>2. CASE SeedIfFresh(r)
  <2> DEFINE v == IF IsDefinition THEN 1 ELSE serial + 1
  <2>1. \/ wrote' = wrote /\ serial' = serial
        \/ /\ v \in Version
           /\ wrote' = [wrote EXCEPT ![r] = @ \union {<<v, "published">>}]
           /\ serial' = IF IsDefinition THEN serial ELSE v
    BY <1>2 DEF SeedIfFresh
  <2>2. wrote' \in [Request -> SUBSET (Version \X {"draft", "published"})]
    <3> HIDE DEF v
    <3>1. CASE wrote' = wrote
      BY <3>1 DEF RailsTypeOK
    <3>2. CASE v \in Version /\ wrote' = [wrote EXCEPT ![r] = @ \union {<<v, "published">>}]
      <4>1. wrote[r] \union {<<v, "published">>} \in SUBSET (Version \X {"draft", "published"})
        BY <3>2 DEF RailsTypeOK
      <4> QED
        BY <3>2, <4>1 DEF RailsTypeOK
    <3> QED
      BY <2>1, <3>1, <3>2
  <2>3. serial' \in 0 .. MaxVersion
    BY <2>1, RailsBoundsAssumption DEF RailsTypeOK, Version
  <2>4. /\ lock' = [lock EXCEPT !["versions"] = r]
        /\ \/ step' = [step EXCEPT ![r] = "committing"] /\ told' = told \union {r}
           \/ step' = [step EXCEPT ![r] = First(does[r])] /\ told' = told
        /\ First(does[r]) \in {"gating", "working"}
        /\ UNCHANGED <<rail, row, does, target, needs, config, staged, patch, latest, blocker,
                       answer, resolving, dead, late, shipped>>
    BY <1>2 DEF SeedIfFresh, First
  <2> QED
    BY <2>2, <2>3, <2>4 DEF RailsTypeOK
<1>3. CASE CreateDraft(r)
  <2>1. serial' \in 0 .. MaxVersion
    BY <1>3, RailsBoundsAssumption DEF CreateDraft, DraftNumber, RailsTypeOK, Version
  <2>2. wrote' \in [Request -> SUBSET (Version \X {"draft", "published"})]
    BY <1>3 DEF CreateDraft, RailsTypeOK
  <2>3. lock' \in [{"versions", "config"} -> Request \union {NoRequest}]
    BY <1>3 DEF CreateDraft, LocksToDraft, RailsTypeOK
  <2> QED
    BY <1>3, <2>1, <2>2, <2>3 DEF CreateDraft, RailsTypeOK
<1>4. CASE ClaimPublish(r)
  <2>1. wrote' \in [Request -> SUBSET (Version \X {"draft", "published"})]
    BY <1>4 DEF ClaimPublish, RailsTypeOK
  <2>2. lock' \in [{"versions", "config"} -> Request \union {NoRequest}]
    BY <1>4 DEF ClaimPublish, LocksToPublish, RailsTypeOK
  <2> QED
    BY <1>4, <2>1, <2>2 DEF ClaimPublish, RailsTypeOK
<1>5. CASE ReadActive(r) \/ PassBlockerGate(r) \/ PassConfigGate(r)
  BY <1>5 DEF ReadActive, PassBlockerGate, PassConfigGate, RailsTypeOK
<1> QED
  BY <1>1, <1>2, <1>3, <1>4, <1>5

LEMMA StoreType ==
    ASSUME RailsTypeOK, NEW r \in Request,
           RaiseBlocker(r) \/ ResolveBlocker(r) \/ SaveConfig(r) \/ Commit(r)
    PROVE  RailsTypeOK'
<1> USE DEF versionVars, configVars, blockerVars, RailsGoto, Answer, Take
<1>1. CASE RaiseBlocker(r)
  <2>1. blocker' \in [Blocker -> {"unraised", "open", "resolved"}]
    BY <1>1 DEF RaiseBlocker, RailsTypeOK
  <2>2. late' \subseteq Request /\ told' \subseteq Request
    BY <1>1 DEF RaiseBlocker, Overtaken, RailsTypeOK
  <2> QED
    BY <1>1, <2>1, <2>2 DEF RaiseBlocker, RailsTypeOK
<1>2. CASE ResolveBlocker(r)
  <2>1. resolving' \in [Blocker -> Request \union {NoRequest}]
    BY <1>2 DEF ResolveBlocker, RailsTypeOK
  <2> QED
    BY <1>2, <2>1 DEF ResolveBlocker, RailsTypeOK
<1>3. CASE SaveConfig(r)
  <2>1. staged' \in [Request -> [Key -> Request \union {NoRequest}]]
    BY <1>3 DEF SaveConfig, RailsTypeOK
  <2>2. lock' \in [{"versions", "config"} -> Request \union {NoRequest}]
    BY <1>3 DEF SaveConfig, LocksConfig, RailsTypeOK
  <2>3. /\ \/ step' = [step EXCEPT ![r] = "committing"] /\ told' = told \union {r}
           \/ step' = [step EXCEPT ![r] = "seeding"] /\ told' = told
        /\ UNCHANGED <<rail, row, serial, wrote, does, target, needs, config, patch, latest,
                       blocker, answer, resolving, dead, late, shipped>>
    BY <1>3 DEF SaveConfig
  <2> QED
    BY <2>1, <2>2, <2>3 DEF RailsTypeOK
<1>4. CASE Commit(r)
  <2>1. row' \in [Version -> {"absent", "draft", "published"}]
    BY <1>4, SeesType DEF Commit
  <2>2. lock' \in [{"versions", "config"} -> Request \union {NoRequest}]
    BY <1>4 DEF Commit, ReleaseAll, RailsTypeOK
  <2>3. /\ config' \in [Key -> Request \union {NoRequest}]
        /\ latest' \in [Key -> Request \union {NoRequest}]
    BY <1>4 DEF Commit, RailsTypeOK
  <2>4. /\ blocker' \in [Blocker -> {"unraised", "open", "resolved"}]
        /\ answer' \in [Blocker -> Request \union {NoRequest}]
        /\ resolving' \in [Blocker -> Request \union {NoRequest}]
    BY <1>4 DEF Commit, RailsTypeOK
  <2>5. shipped' \subseteq [version : Version, by : Request, open : BOOLEAN, raced : BOOLEAN]
    <3> DEFINE open == IsDefinition /\ \E b \in Blocker : blocker[b] = "open"
               record == [version |-> target[r], by |-> r, raced |-> r \in late, open |-> open]
    <3>1. shipped' = shipped \/ shipped' = shipped \union {record}
      BY <1>4 DEF Commit
    <3>2. target[r] \in Version /\ (r \in late) \in BOOLEAN /\ open \in BOOLEAN
      BY DEF RailsTypeOK
    <3>3. record \in [version : Version, by : Request, open : BOOLEAN, raced : BOOLEAN]
      BY <3>2
    <3> HIDE DEF record
    <3> QED
      BY <3>1, <3>3 DEF RailsTypeOK
  <2>6. /\ step' = [step EXCEPT ![r] = "done"]
        /\ UNCHANGED <<rail, serial, wrote, does, target, needs, staged, patch, told, dead, late>>
    BY <1>4 DEF Commit
  <2> QED
    BY <2>1, <2>2, <2>3, <2>4, <2>5, <2>6 DEF RailsTypeOK
<1> QED
  BY <1>1, <1>2, <1>3, <1>4

\* A request that ends without a trace: a refusal or a death.
Ends(r) == RefuseDraft(r) \/ RefusePublish(r) \/ RefuseResolve(r) \/ Die(r)

LEMMA EndsRollBack ==
    ASSUME NEW r \in Request, Ends(r)
    PROVE  /\ RollBack(r) /\ told' = told /\ dead' \in {dead, dead \union {r}}
           /\ step[r] \notin {"new", "done"}
           /\ r \in dead' \/ step[r] # "committing"
BY DEF Ends, RefuseDraft, RefusePublish, RefuseResolve, Die, Refuse

\* The drafts, publishes and reads; the stores; the ends.
RailStep(r) == \/ StartRequest(r) \/ SeedIfFresh(r) \/ ReadActive(r) \/ CreateDraft(r)
               \/ PassBlockerGate(r) \/ PassConfigGate(r) \/ ClaimPublish(r)
StoreStep(r) == RaiseBlocker(r) \/ ResolveBlocker(r) \/ SaveConfig(r) \/ Commit(r)

LEMMA NextCases == RailsNext => \E r \in Request : RailStep(r) \/ StoreStep(r) \/ Ends(r)
BY DEF RailsNext, RailStep, StoreStep, Ends

LEMMA NextType == RailsTypeOK /\ [RailsNext]_railsVars => RailsTypeOK'
<1> SUFFICES ASSUME RailsTypeOK, [RailsNext]_railsVars PROVE RailsTypeOK'
  OBVIOUS
<1>1. CASE RailsNext
  <2>1. PICK r \in Request : RailStep(r) \/ StoreStep(r) \/ Ends(r)
    BY <1>1, NextCases
  <2>2. CASE Ends(r)
    <3>1. told' \subseteq Request /\ dead' \subseteq Request
      BY <2>2, EndsRollBack DEF RailsTypeOK
    <3> QED
      BY <2>2, <3>1, EndsRollBack, RollBackType
  <2> QED
    BY <2>1, <2>2, RailType, StoreType DEF RailStep, StoreStep
<1>2. CASE UNCHANGED railsVars
  BY <1>2 DEF railsVars, versionVars, configVars, blockerVars, RailsTypeOK
<1> QED
  BY <1>1, <1>2

\* Type correctness of the rails, for any numbers of requests, versions and keys.
THEOREM RailsTypeCorrect == RailsSpec => []RailsTypeOK
BY InitType, NextType, PTL DEF RailsSpec

-----------------------------------------------------------------------------
(* A step of one request leaves the others as they were. *)

Others(r) == \A q \in Request : q # r =>
    /\ step'[q] = step[q] /\ does'[q] = does[q] /\ target'[q] = target[q]
    /\ wrote'[q] = wrote[q] /\ staged'[q] = staged[q] /\ patch'[q] = patch[q]

LEMMA OthersStay ==
    ASSUME RailsTypeOK, NEW r \in Request, RailStep(r) \/ StoreStep(r) \/ Ends(r)
    PROVE  Others(r) /\ rail' = rail
<1> USE DEF versionVars, configVars, blockerVars, RailsGoto, Answer, RailsTypeOK
<1>1. CASE StartRequest(r)
  <2>1. PICK o \in Operation, v \in Version, k \in SUBSET Key :
          /\ does' = [does EXCEPT ![r] = o]
          /\ step' = [step EXCEPT ![r] = IF o \in {"read", "draft", "publish"} /\ MustSeed(r)
                                         THEN "seeding" ELSE First(o)]
          /\ target' = [target EXCEPT ![r] = v]
          /\ patch' = [patch EXCEPT ![r] = k]
    <3>1. PICK o \in Operation :
            /\ does' = [does EXCEPT ![r] = o]
            /\ step' = [step EXCEPT ![r] = IF o \in {"read", "draft", "publish"} /\ MustSeed(r)
                                           THEN "seeding" ELSE First(o)]
            /\ \E v \in IF o = "publish" THEN Version ELSE {1} : target' = [target EXCEPT ![r] = v]
            /\ \E k \in IF o \in {"merge", "replace"} THEN SUBSET Key ELSE {{}} :
                  patch' = [patch EXCEPT ![r] = k]
      BY <1>1 DEF StartRequest
    <3>2. \E v \in Version : target' = [target EXCEPT ![r] = v]
      <4>1. 1 \in Version
        BY RailsBoundsAssumption DEF Version
      <4>2. \A v \in {1} : v \in Version
        BY <4>1
      <4>3. \A v \in IF o = "publish" THEN Version ELSE {1} : v \in Version
        BY <4>2
      <4> QED
        BY <3>1, <4>3
    <3>3. \E k \in SUBSET Key : patch' = [patch EXCEPT ![r] = k]
      BY <3>1
    <3> QED
      BY <3>1, <3>2, <3>3
  <2>2. rail' = rail /\ wrote' = wrote /\ staged' = staged
    BY <1>1 DEF StartRequest
  <2> QED
    BY <2>1, <2>2 DEF Others
<1>2. CASE SeedIfFresh(r)
  <2>1. /\ rail' = rail /\ does' = does /\ target' = target /\ staged' = staged /\ patch' = patch
        /\ \E w : step' = [step EXCEPT ![r] = w]
        /\ wrote' = wrote \/ \E W : wrote' = [wrote EXCEPT ![r] = W]
    BY <1>2 DEF SeedIfFresh
  <2> QED
    BY <2>1 DEF Others
<1>3. CASE ReadActive(r) \/ CreateDraft(r) \/ PassBlockerGate(r) \/ PassConfigGate(r) \/ ClaimPublish(r)
  BY <1>3 DEF ReadActive, CreateDraft, PassBlockerGate, PassConfigGate, ClaimPublish, Others
<1>4. CASE RaiseBlocker(r) \/ ResolveBlocker(r) \/ SaveConfig(r)
  BY <1>4 DEF RaiseBlocker, ResolveBlocker, SaveConfig, Others
<1>5. CASE Commit(r)
  BY <1>5 DEF Commit, Others
<1>6. CASE Ends(r)
  BY <1>6, EndsRollBack DEF RollBack, Others
<1> QED
  BY <1>1, <1>2, <1>3, <1>4, <1>5, <1>6 DEF RailStep, StoreStep

-----------------------------------------------------------------------------
(* Where a request can be *)

\* Only a publish goes through the gates, and who has the first seed to make is no store's.
Roles == \A r \in Request :
    /\ step[r] \in {"gating", "configuring", "claiming"} => does[r] = "publish"
    /\ step[r] = "seeding" => does[r] \in {"read", "draft", "publish", "merge", "replace"}

LEMMA RolesStep ==
    ASSUME RailsTypeOK, Roles, NEW r \in Request, RailStep(r) \/ StoreStep(r) \/ Ends(r)
    PROVE  Roles'
<1> USE DEF versionVars, configVars, blockerVars, RailsGoto, Answer, RailsTypeOK
<1>1. Others(r)
  BY OthersStay
<1>2. /\ step'[r] \in {"gating", "configuring", "claiming"} => does'[r] = "publish"
      /\ step'[r] = "seeding" => does'[r] \in {"read", "draft", "publish", "merge", "replace"}
  <2>1. CASE StartRequest(r)
    <3>1. PICK o \in Operation :
            /\ does' = [does EXCEPT ![r] = o]
            /\ step' = [step EXCEPT ![r] = IF o \in {"read", "draft", "publish"} /\ MustSeed(r)
                                           THEN "seeding" ELSE First(o)]
      BY <2>1 DEF StartRequest
    <3> QED
      BY <3>1 DEF First
  <2>2. CASE SeedIfFresh(r)
    <3>1. does' = does /\ step'[r] \in {"committing", First(does[r])}
      BY <2>2 DEF SeedIfFresh
    <3> QED
      BY <3>1 DEF First
  <2>3. CASE ReadActive(r) \/ CreateDraft(r) \/ PassBlockerGate(r) \/ PassConfigGate(r)
    BY <2>3 DEF ReadActive, CreateDraft, PassBlockerGate, PassConfigGate, Roles
  <2>4. CASE ClaimPublish(r) \/ RaiseBlocker(r) \/ ResolveBlocker(r) \/ Commit(r)
    BY <2>4 DEF ClaimPublish, RaiseBlocker, ResolveBlocker, Commit
  <2>5. CASE SaveConfig(r)
    BY <2>5 DEF SaveConfig
  <2>6. CASE Ends(r)
    BY <2>6, EndsRollBack DEF RollBack
  <2> QED
    BY <2>1, <2>2, <2>3, <2>4, <2>5, <2>6 DEF RailStep, StoreStep
<1> QED
  BY <1>1, <1>2 DEF Others, Roles

-----------------------------------------------------------------------------
(* Config *)

\* A saved and uncommitted config is what its request's patch makes of the committed one,
\* which nobody else can change meanwhile: the request has the config lock.
ConfigHeld == \A r \in Request :
    does[r] \in {"merge", "replace"} /\ step[r] \in {"seeding", "committing"} =>
        /\ lock["config"] = r
        /\ \A k \in Key : staged[r][k] = IF k \in patch[r] THEN r
                                         ELSE IF does[r] = "merge" THEN config[k] ELSE NoRequest
ConfigInv == RailsTypeOK /\ Roles /\ ConfigHeld /\ NoSettingLost

LEMMA ConfigRail ==
    ASSUME ConfigInv, NEW r \in Request, RailStep(r)
    PROVE  ConfigHeld' /\ NoSettingLost'
<1> USE DEF versionVars, configVars, blockerVars, RailsGoto, Answer, RailsTypeOK, ConfigInv
<1>1. Others(r)
  BY OthersStay
<1>2. config' = config /\ latest' = latest /\ lock' \in {lock, [lock EXCEPT !["versions"] = r]}
  BY DEF RailStep, StartRequest, SeedIfFresh, ReadActive, CreateDraft, LocksToDraft,
         PassBlockerGate, PassConfigGate, ClaimPublish, LocksToPublish, Take
<1>3. lock'["config"] = lock["config"]
  BY <1>2
<1>4. does'[r] \in {"merge", "replace"} /\ step'[r] \in {"seeding", "committing"} =>
        /\ does[r] = does'[r] /\ step[r] = "seeding"
        /\ staged'[r] = staged[r] /\ patch'[r] = patch[r]
  <2>1. CASE StartRequest(r)
    <3>1. PICK o \in Operation :
            /\ does' = [does EXCEPT ![r] = o]
            /\ step' = [step EXCEPT ![r] = IF o \in {"read", "draft", "publish"} /\ MustSeed(r)
                                           THEN "seeding" ELSE First(o)]
      BY <2>1 DEF StartRequest
    <3>2. does'[r] = o /\ (o \in {"merge", "replace"} => step'[r] = "working")
      BY <3>1 DEF First
    <3> QED
      BY <3>2
  <2>2. CASE SeedIfFresh(r)
    BY <2>2 DEF SeedIfFresh
  <2>3. CASE ReadActive(r) \/ CreateDraft(r) \/ PassBlockerGate(r) \/ PassConfigGate(r)
    BY <2>3 DEF ReadActive, CreateDraft, PassBlockerGate, PassConfigGate
  <2>4. CASE ClaimPublish(r)
    <3>1. does' = does /\ does[r] = "publish"
      BY <2>4 DEF ClaimPublish, Roles
    <3> QED
      BY <3>1
  <2> QED
    BY <2>1, <2>2, <2>3, <2>4 DEF RailStep
<1>5. ConfigHeld'
  BY <1>1, <1>2, <1>3, <1>4 DEF Others, ConfigHeld
<1> QED
  BY <1>2, <1>5 DEF NoSettingLost

LEMMA ConfigStore ==
    ASSUME ConfigInv, NEW r \in Request, StoreStep(r) \/ Ends(r)
    PROVE  ConfigHeld' /\ NoSettingLost'
<1> USE DEF versionVars, configVars, blockerVars, RailsGoto, Answer, RailsTypeOK, ConfigInv
<1>1. Others(r)
  BY OthersStay
<1>2. CASE RaiseBlocker(r) \/ ResolveBlocker(r)
  <2>1. /\ does[r] \notin {"merge", "replace"} /\ does' = does
        /\ UNCHANGED <<lock, config, latest>>
    BY <1>2 DEF RaiseBlocker, ResolveBlocker
  <2> QED
    BY <1>1, <2>1 DEF Others, ConfigHeld, NoSettingLost
<1>3. CASE SaveConfig(r)
  <2>1. /\ does' = does /\ config' = config /\ latest' = latest /\ patch' = patch
        /\ lock["config"] \in {NoRequest, r}
        /\ lock' = [lock EXCEPT !["config"] = r]
        /\ \A k \in Key : staged'[r][k] = IF k \in patch[r] THEN r
                                          ELSE IF does[r] = "merge" THEN config[k] ELSE NoRequest
    BY <1>3 DEF SaveConfig, LocksConfig, Free, Take
  <2>2. \A q \in Request : q # r => ~(does[q] \in {"merge", "replace"}
                                      /\ step[q] \in {"seeding", "committing"})
    BY <2>1, NoRequestAssumption DEF ConfigHeld
  <2>3. lock'["config"] = r
    BY <2>1
  <2> QED
    BY <1>1, <2>1, <2>2, <2>3 DEF Others, ConfigHeld, NoSettingLost
<1>4. CASE Commit(r)
  <2>1. /\ does' = does /\ step'[r] = "done" /\ step[r] = "committing"
        /\ lock' = [l \in {"versions", "config"} |-> IF lock[l] = r THEN NoRequest ELSE lock[l]]
    BY <1>4 DEF Commit, ReleaseAll
  <2>2. CASE does[r] \in {"merge", "replace"}
    <3>1. /\ config' = staged[r]
          /\ latest' = [k \in Key |-> IF k \in patch[r] THEN r
                                      ELSE IF does[r] = "merge" THEN latest[k] ELSE NoRequest]
      BY <1>4, <2>2 DEF Commit
    <3>2. lock["config"] = r
      BY <2>1, <2>2 DEF ConfigHeld
    <3>3. \A q \in Request : q # r => ~(does[q] \in {"merge", "replace"}
                                        /\ step[q] \in {"seeding", "committing"})
      BY <3>2 DEF ConfigHeld
    <3>4. ConfigHeld'
      BY <1>1, <2>1, <3>3 DEF Others, ConfigHeld
    <3>5. \A k \in Key : staged[r][k] = IF k \in patch[r] THEN r
                                        ELSE IF does[r] = "merge" THEN config[k] ELSE NoRequest
      BY <2>1, <2>2 DEF ConfigHeld
    <3> QED
      BY <3>1, <3>4, <3>5 DEF NoSettingLost
  <2>3. CASE does[r] \notin {"merge", "replace"}
    <3>1. config' = config /\ latest' = latest
      BY <1>4, <2>3 DEF Commit
    <3>2. \A q \in Request : lock["config"] = q /\ q # r => lock'["config"] = q
      BY <2>1
    <3> QED
      BY <1>1, <2>1, <3>1, <3>2 DEF Others, ConfigHeld, NoSettingLost
  <2> QED
    BY <2>2, <2>3
<1>5. CASE Ends(r)
  <2>1. /\ does' = does /\ step'[r] = "done" /\ config' = config /\ latest' = latest
        /\ lock' = [l \in {"versions", "config"} |-> IF lock[l] = r THEN NoRequest ELSE lock[l]]
    BY <1>5, EndsRollBack DEF RollBack, ReleaseAll
  <2>2. \A q \in Request : lock["config"] = q /\ q # r => lock'["config"] = q
    BY <2>1
  <2> QED
    BY <1>1, <2>1, <2>2 DEF Others, ConfigHeld, NoSettingLost
<1> QED
  BY <1>2, <1>3, <1>4, <1>5 DEF StoreStep

LEMMA ConfigInit == RailsInit => ConfigInv
<1> SUFFICES ASSUME RailsInit PROVE ConfigInv
  OBVIOUS
<1>1. Roles /\ ConfigHeld /\ NoSettingLost
  BY DEF RailsInit, Roles, ConfigHeld, NoSettingLost
<1> QED
  BY <1>1, InitType DEF ConfigInv

LEMMA ConfigNext == ConfigInv /\ [RailsNext]_railsVars => ConfigInv'
<1> SUFFICES ASSUME ConfigInv, [RailsNext]_railsVars PROVE ConfigInv'
  OBVIOUS
<1>1. RailsTypeOK'
  BY NextType DEF ConfigInv
<1>2. CASE RailsNext
  <2>1. PICK r \in Request : RailStep(r) \/ StoreStep(r) \/ Ends(r)
    BY <1>2, NextCases
  <2> QED
    BY <1>1, <2>1, RolesStep, ConfigRail, ConfigStore DEF ConfigInv
<1>3. CASE UNCHANGED railsVars
  BY <1>1, <1>3 DEF railsVars, versionVars, configVars, blockerVars, ConfigInv, Roles,
                    ConfigHeld, NoSettingLost
<1> QED
  BY <1>2, <1>3

\* The inductive invariant of the config store, and what it is for: the committed config is
\* what the committed merges and replaces leave, whichever of them overlapped.
THEOREM ConfigSafe == RailsSpec => []ConfigInv
BY ConfigInit, ConfigNext, PTL DEF RailsSpec

THEOREM NoSettingLostHolds == RailsSpec => []NoSettingLost
<1>1. ConfigInv => NoSettingLost
  BY DEF ConfigInv
<1> QED
  BY <1>1, ConfigSafe, PTL

-----------------------------------------------------------------------------
(* Blockers *)

\* A publish that is past the blocker gate while a blocker is open was there when one was
\* raised.
GateLooked == IsDefinition => \A r \in Request, b \in Blocker :
    does[r] = "publish" /\ step[r] \in {"configuring", "claiming", "committing"}
        /\ blocker[b] = "open" => r \in late

\* Who was answered, who has an uncommitted resolution, and on what.
Resolvers ==
    /\ \A r \in told : step[r] \in {"committing", "done"}
    /\ \A b \in Blocker : resolving[b] \in Request =>
          blocker[b] = "open" /\ step[resolving[b]] = "committing" /\ does[resolving[b]] = "resolve"
    /\ \A r \in Request : does[r] = "resolve" /\ step[r] = "committing" =>
          \E b \in Blocker : resolving[b] = r
    /\ \A b \in Blocker : answer[b] \in Request => blocker[b] = "resolved"

BlockerInv == RailsTypeOK /\ Roles /\ GateLooked /\ BlockedPublishIsRaced
              /\ Resolvers /\ ResolutionStands

\* The rail's steps: who is answered or goes on, no blocker touched.
LEMMA RailStepGoes ==
    ASSUME RailsTypeOK, Roles, NEW r \in Request, RailStep(r)
    PROVE  /\ UNCHANGED <<blocker, answer, resolving, dead, late, shipped>>
           /\ told' \in {told, told \union {r}}
           /\ step[r] \notin {"committing", "done"} /\ step'[r] # "done"
           /\ step'[r] = "committing" => does'[r] # "resolve"
           /\ r \in told' => r \in told \/ step'[r] = "committing"
           /\ does'[r] = "publish" /\ step'[r] \in {"configuring", "claiming", "committing"} =>
                 \/ does[r] = "publish" /\ step[r] \in {"configuring", "claiming"}
                 \/ Unblocked(r)
<1> USE DEF versionVars, configVars, blockerVars, RailsGoto, Answer, RailsTypeOK
<1>1. CASE StartRequest(r)
  <2>1. PICK o \in Operation :
          /\ does' = [does EXCEPT ![r] = o]
          /\ step' = [step EXCEPT ![r] = IF o \in {"read", "draft", "publish"} /\ MustSeed(r)
                                         THEN "seeding" ELSE First(o)]
    BY <1>1 DEF StartRequest
  <2>2. step'[r] \in {"seeding", "gating", "working"} /\ step[r] = "new"
    BY <1>1, <2>1 DEF StartRequest, First
  <2>3. UNCHANGED <<blocker, answer, resolving, dead, late, shipped, told>>
    BY <1>1 DEF StartRequest
  <2> QED
    BY <2>2, <2>3
<1>2. CASE SeedIfFresh(r)
  <2>1. /\ step[r] = "seeding" /\ does' = does
        /\ UNCHANGED <<blocker, answer, resolving, dead, late, shipped>>
        /\ \/ does[r] \in {"merge", "replace"} /\ step'[r] = "committing" /\ told' = told \union {r}
           \/ step'[r] \in {"gating", "working"} /\ told' = told
    BY <1>2 DEF SeedIfFresh, First
  <2> QED
    BY <2>1
<1>3. CASE ReadActive(r)
  BY <1>3 DEF ReadActive
<1>4. CASE CreateDraft(r)
  BY <1>4 DEF CreateDraft
<1>5. CASE PassBlockerGate(r)
  BY <1>5 DEF PassBlockerGate
<1>6. CASE PassConfigGate(r)
  BY <1>6 DEF PassConfigGate, Roles
<1>7. CASE ClaimPublish(r)
  <2>1. does' = does /\ does[r] = "publish" /\ step[r] = "claiming"
    BY <1>7 DEF ClaimPublish, Roles
  <2>2. UNCHANGED <<blocker, answer, resolving, dead, late, shipped>>
    BY <1>7 DEF ClaimPublish
  <2>3. step'[r] = "committing" /\ told' = told \union {r}
    BY <1>7 DEF ClaimPublish
  <2> QED
    BY <2>1, <2>2, <2>3
<1> QED
  BY <1>1, <1>2, <1>3, <1>4, <1>5, <1>6, <1>7 DEF RailStep

LEMMA BlockerRail ==
    ASSUME BlockerInv, NEW r \in Request, RailStep(r)
    PROVE  GateLooked' /\ BlockedPublishIsRaced' /\ Resolvers' /\ ResolutionStands'
<1> USE DEF BlockerInv, RailsTypeOK
<1>1. Others(r) /\ rail' = rail
  BY OthersStay
<1>a. /\ UNCHANGED <<blocker, answer, resolving, dead, late, shipped>>
      /\ told' \in {told, told \union {r}}
      /\ step[r] \notin {"committing", "done"} /\ step'[r] # "done"
      /\ step'[r] = "committing" => does'[r] # "resolve"
      /\ r \in told' => r \in told \/ step'[r] = "committing"
      /\ does'[r] = "publish" /\ step'[r] \in {"configuring", "claiming", "committing"} =>
            \/ does[r] = "publish" /\ step[r] \in {"configuring", "claiming"}
            \/ Unblocked(r)
  BY RailStepGoes
<1>2. GateLooked'
  BY <1>1, <1>a DEF Others, GateLooked, IsDefinition, Unblocked
<1>3. BlockedPublishIsRaced'
  BY <1>a DEF BlockedPublishIsRaced
<1>4. Resolvers'
  <2>1. \A q \in told' : step'[q] \in {"committing", "done"}
    <3>1. r \notin told
      BY <1>a DEF Resolvers
    <3>2. \A q \in told : q # r /\ step'[q] = step[q]
      BY <1>1, <3>1 DEF Others
    <3>3. \A q \in told' : q \in told \/ q = r
      BY <1>a
    <3>4. r \in told' => step'[r] = "committing"
      BY <1>a, <3>1
    <3> QED
      BY <3>2, <3>3, <3>4 DEF Resolvers
  <2>2. \A b \in Blocker : resolving[b] \in Request => resolving[b] # r
    BY <1>a DEF Resolvers
  <2>3. \A b \in Blocker : resolving'[b] \in Request =>
           blocker'[b] = "open" /\ step'[resolving'[b]] = "committing"
           /\ does'[resolving'[b]] = "resolve"
    BY <1>1, <1>a, <2>2 DEF Others, Resolvers
  <2>4. \A q \in Request : does'[q] = "resolve" /\ step'[q] = "committing" =>
           \E b \in Blocker : resolving'[b] = q
    BY <1>1, <1>a DEF Others, Resolvers
  <2>5. \A b \in Blocker : answer'[b] \in Request => blocker'[b] = "resolved"
    BY <1>a DEF Resolvers
  <2> QED
    BY <2>1, <2>3, <2>4, <2>5 DEF Resolvers
<1>5. ResolutionStands'
  <2>1. \A q \in told' \ dead' : step'[q] = "done" => q # r /\ q \in told \ dead
    BY <1>a
  <2> QED
    BY <1>1, <1>a, <2>1 DEF Others, ResolutionStands
<1> QED
  BY <1>2, <1>3, <1>4, <1>5

LEMMA BlockerStore ==
    ASSUME BlockerInv, NEW r \in Request, StoreStep(r)
    PROVE  GateLooked' /\ BlockedPublishIsRaced' /\ Resolvers' /\ ResolutionStands'
<1> USE DEF BlockerInv, RailsTypeOK, versionVars, configVars, blockerVars, RailsGoto, Answer
<1>1. Others(r) /\ rail' = rail
  BY OthersStay DEF Ends
<1>2. CASE RaiseBlocker(r)
  <2>1. /\ does' = does /\ does[r] = "raise" /\ step[r] = "working" /\ step'[r] = "done"
        /\ \A q \in Request \ {r} : step'[q] = step[q]
        /\ late' = late \union Overtaken /\ told' = told \union {r}
        /\ UNCHANGED <<answer, resolving, dead, shipped>>
    BY <1>2 DEF RaiseBlocker
  <2>2. PICK b \in Blocker : blocker[b] = "unraised" /\ blocker' = [blocker EXCEPT ![b] = "open"]
    BY <1>2 DEF RaiseBlocker
  <2>3. \A c \in Blocker : resolving[c] \in Request \/ answer[c] \in Request
                            => blocker'[c] = blocker[c] /\ resolving[c] # r
    BY <2>1, <2>2 DEF Resolvers
  <2>4. GateLooked'
    BY <1>1, <2>1 DEF Others, GateLooked, Overtaken
  <2>5. Resolvers'
    BY <2>1, <2>3 DEF Resolvers
  <2>6. ResolutionStands' /\ BlockedPublishIsRaced'
    BY <2>1 DEF ResolutionStands, BlockedPublishIsRaced
  <2> QED
    BY <2>4, <2>5, <2>6
<1>3. CASE ResolveBlocker(r)
  <2>1. /\ does' = does /\ does[r] = "resolve" /\ step[r] = "working" /\ step'[r] = "committing"
        /\ told' = told \union {r}
        /\ UNCHANGED <<answer, blocker, dead, shipped, late>>
    BY <1>3 DEF ResolveBlocker
  <2>2. PICK b \in Blocker : /\ resolving[b] = NoRequest /\ blocker[b] = "open"
                             /\ resolving' = [resolving EXCEPT ![b] = r]
    BY <1>3 DEF ResolveBlocker, WinsBlocker
  <2>3. GateLooked' /\ BlockedPublishIsRaced' /\ ResolutionStands'
    BY <1>1, <2>1 DEF Others, GateLooked, IsDefinition, BlockedPublishIsRaced, ResolutionStands
  <2>4. Resolvers'
    <3>1. \A q \in told' : step'[q] \in {"committing", "done"}
      BY <1>1, <2>1 DEF Others, Resolvers
    <3>2. \A c \in Blocker : resolving'[c] \in Request =>
             blocker'[c] = "open" /\ step'[resolving'[c]] = "committing"
             /\ does'[resolving'[c]] = "resolve"
      BY <1>1, <2>1, <2>2 DEF Others, Resolvers
    <3>3. \A q \in Request : does'[q] = "resolve" /\ step'[q] = "committing" =>
             \E c \in Blocker : resolving'[c] = q
      <4>1. resolving'[b] = r
        BY <2>2
      <4>2. \A q \in Request, c \in Blocker : resolving[c] = q => c # b
        BY <2>2, NoRequestAssumption
      <4>3. \A q \in Request : q # r /\ does'[q] = "resolve" /\ step'[q] = "committing" =>
               \E c \in Blocker : c # b /\ resolving[c] = q
        BY <1>1, <4>2 DEF Others, Resolvers
      <4> QED
        BY <2>2, <4>1, <4>3
    <3> QED
      BY <2>1, <3>1, <3>2, <3>3 DEF Resolvers
  <2> QED
    BY <2>3, <2>4
<1>4. CASE SaveConfig(r)
  <2>1. /\ does' = does /\ does[r] \in {"merge", "replace"} /\ step[r] = "working"
        /\ step'[r] \in {"committing", "seeding"}
        /\ told' \in {told, told \union {r}} /\ (r \in told' => r \in told \/ step'[r] = "committing")
        /\ UNCHANGED <<answer, blocker, resolving, dead, shipped, late>>
    BY <1>4 DEF SaveConfig
  <2>2. GateLooked' /\ BlockedPublishIsRaced' /\ ResolutionStands'
    BY <1>1, <2>1 DEF Others, GateLooked, IsDefinition, BlockedPublishIsRaced, ResolutionStands
  <2>3. Resolvers'
    <3>1. \A q \in told' : step'[q] \in {"committing", "done"}
      <4>1. r \notin told
        BY <2>1 DEF Resolvers
      <4>2. \A q \in told : q # r /\ step'[q] = step[q]
        BY <1>1, <4>1 DEF Others
      <4>3. \A q \in told' : q \in told \/ q = r
        BY <2>1
      <4>4. r \in told' => step'[r] = "committing"
        BY <2>1, <4>1
      <4> QED
        BY <4>2, <4>3, <4>4 DEF Resolvers
    <3>2. \A b \in Blocker : resolving[b] \in Request => resolving[b] # r
      BY <2>1 DEF Resolvers
    <3>3. \A b \in Blocker : resolving'[b] \in Request =>
             blocker'[b] = "open" /\ step'[resolving'[b]] = "committing"
             /\ does'[resolving'[b]] = "resolve"
      BY <1>1, <2>1, <3>2 DEF Others, Resolvers
    <3>4. \A q \in Request : does'[q] = "resolve" /\ step'[q] = "committing" =>
             \E b \in Blocker : resolving'[b] = q
      BY <1>1, <2>1 DEF Others, Resolvers
    <3>5. \A b \in Blocker : answer'[b] \in Request => blocker'[b] = "resolved"
      BY <2>1 DEF Resolvers
    <3> QED
      BY <3>1, <3>3, <3>4, <3>5 DEF Resolvers
  <2> QED
    BY <2>2, <2>3
<1>5. CASE Commit(r)
  <2>1. /\ does' = does /\ step[r] = "committing" /\ step'[r] = "done"
        /\ UNCHANGED <<told, dead, late>>
    BY <1>5 DEF Commit
  <2>2. \A b \in Blocker :
          /\ blocker'[b] = IF resolving[b] = r THEN "resolved" ELSE blocker[b]
          /\ answer'[b] = IF resolving[b] = r THEN r ELSE answer[b]
          /\ resolving'[b] = IF resolving[b] = r THEN NoRequest ELSE resolving[b]
    BY <1>5 DEF Commit
  <2>3. GateLooked'
    BY <1>1, <2>1, <2>2 DEF Others, GateLooked, IsDefinition
  <2>4. BlockedPublishIsRaced'
    <3>1. CASE does[r] # "publish"
      BY <1>5, <3>1 DEF Commit, BlockedPublishIsRaced
    <3>2. CASE does[r] = "publish"
      <4> DEFINE open == IsDefinition /\ \E b \in Blocker : blocker[b] = "open"
                 record == [version |-> target[r], by |-> r, raced |-> r \in late, open |-> open]
      <4>1. shipped' = shipped \union {record}
        BY <1>5, <3>2 DEF Commit
      <4>2. open => r \in late
        BY <2>1, <3>2 DEF GateLooked
      <4>3. record.open => record.raced
        BY <4>2
      <4> HIDE DEF record
      <4> QED
        BY <4>1, <4>3 DEF BlockedPublishIsRaced
    <3> QED
      BY <3>1, <3>2
  <2>5. Resolvers'
    <3>1. \A q \in told' : step'[q] \in {"committing", "done"}
      BY <1>1, <2>1 DEF Others, Resolvers
    <3>2. \A b \in Blocker : resolving'[b] \in Request =>
             blocker'[b] = "open" /\ step'[resolving'[b]] = "committing"
             /\ does'[resolving'[b]] = "resolve"
      BY <1>1, <2>1, <2>2, NoRequestAssumption DEF Others, Resolvers
    <3>3. \A q \in Request : does'[q] = "resolve" /\ step'[q] = "committing" =>
             \E b \in Blocker : resolving'[b] = q
      <4>1. \A q \in Request : does'[q] = "resolve" /\ step'[q] = "committing" =>
               q # r /\ \E b \in Blocker : resolving[b] = q
        BY <1>1, <2>1 DEF Others, Resolvers
      <4> QED
        BY <2>2, <4>1
    <3>4. \A b \in Blocker : answer'[b] \in Request => blocker'[b] = "resolved"
      BY <2>2 DEF Resolvers
    <3> QED
      BY <3>1, <3>2, <3>3, <3>4 DEF Resolvers
  <2>6. ResolutionStands'
    <3> SUFFICES ASSUME NEW q \in told' \ dead', does'[q] = "resolve", step'[q] = "done"
                 PROVE  \E b \in Blocker : answer'[b] = q
      BY DEF ResolutionStands
    <3>1. CASE q = r
      <4>1. PICK b \in Blocker : resolving[b] = r
        BY <2>1, <3>1 DEF Resolvers
      <4> QED
        BY <2>2, <3>1, <4>1
    <3>2. CASE q # r
      <4>1. PICK b \in Blocker : answer[b] = q
        BY <1>1, <2>1, <3>2 DEF Others, ResolutionStands
      <4>2. blocker[b] = "resolved"
        BY <2>1, <4>1 DEF Resolvers
      <4>3. resolving[b] # r
        BY <4>2 DEF Resolvers
      <4> QED
        BY <2>2, <4>1, <4>3
    <3> QED
      BY <3>1, <3>2
  <2> QED
    BY <2>3, <2>4, <2>5, <2>6
<1> QED
  BY <1>2, <1>3, <1>4, <1>5 DEF StoreStep

LEMMA BlockerEnds ==
    ASSUME BlockerInv, NEW r \in Request, Ends(r)
    PROVE  GateLooked' /\ BlockedPublishIsRaced' /\ Resolvers' /\ ResolutionStands'
<1> USE DEF BlockerInv, RailsTypeOK
<1>1. Others(r) /\ rail' = rail
  BY OthersStay
<1>2. /\ step'[r] = "done" /\ step[r] \notin {"new", "done"}
      /\ told' = told /\ dead' \in {dead, dead \union {r}} /\ (r \in dead' \/ step[r] # "committing")
      /\ UNCHANGED <<does, blocker, answer, late, shipped>>
      /\ \A b \in Blocker : resolving'[b] = IF resolving[b] = r THEN NoRequest ELSE resolving[b]
  BY EndsRollBack DEF RollBack, RailsGoto
<1>3. GateLooked' /\ BlockedPublishIsRaced'
  BY <1>1, <1>2 DEF Others, GateLooked, IsDefinition, BlockedPublishIsRaced
<1>4. Resolvers'
  <2>1. \A q \in told' : step'[q] \in {"committing", "done"}
    BY <1>1, <1>2 DEF Others, Resolvers
  <2>2. \A b \in Blocker : resolving'[b] \in Request =>
           blocker'[b] = "open" /\ step'[resolving'[b]] = "committing"
           /\ does'[resolving'[b]] = "resolve"
    BY <1>1, <1>2, NoRequestAssumption DEF Others, Resolvers
  <2>3. \A q \in Request : does'[q] = "resolve" /\ step'[q] = "committing" =>
           \E b \in Blocker : resolving'[b] = q
    <3>1. \A q \in Request : does'[q] = "resolve" /\ step'[q] = "committing" =>
             q # r /\ \E b \in Blocker : resolving[b] = q
      BY <1>1, <1>2 DEF Others, Resolvers
    <3> QED
      BY <1>2, <3>1
  <2> QED
    BY <1>2, <2>1, <2>2, <2>3 DEF Resolvers
<1>5. ResolutionStands'
  <2>1. \A q \in told' \ dead' : q # r /\ q \in told \ dead
    BY <1>2 DEF Resolvers
  <2> QED
    BY <1>1, <1>2, <2>1 DEF Others, ResolutionStands
<1> QED
  BY <1>3, <1>4, <1>5

LEMMA BlockerInit == RailsInit => BlockerInv
<1> SUFFICES ASSUME RailsInit PROVE BlockerInv
  OBVIOUS
<1>1. Roles /\ GateLooked /\ BlockedPublishIsRaced /\ ResolutionStands
  BY DEF RailsInit, Roles, GateLooked, BlockedPublishIsRaced, ResolutionStands
<1>2. Resolvers
  BY NoRequestAssumption DEF RailsInit, Resolvers
<1> QED
  BY <1>1, <1>2, InitType DEF BlockerInv

LEMMA BlockerNext == BlockerInv /\ [RailsNext]_railsVars => BlockerInv'
<1> SUFFICES ASSUME BlockerInv, [RailsNext]_railsVars PROVE BlockerInv'
  OBVIOUS
<1>1. RailsTypeOK'
  BY NextType DEF BlockerInv
<1>2. CASE RailsNext
  <2>1. PICK r \in Request : RailStep(r) \/ StoreStep(r) \/ Ends(r)
    BY <1>2, NextCases
  <2>2. Roles'
    BY <2>1, RolesStep DEF BlockerInv
  <2> QED
    BY <1>1, <2>1, <2>2, BlockerRail, BlockerStore, BlockerEnds DEF BlockerInv
<1>3. CASE UNCHANGED railsVars
  <2> USE <1>3 DEF railsVars, versionVars, configVars, blockerVars, BlockerInv
  <2>1. Roles' /\ GateLooked' /\ BlockedPublishIsRaced' /\ ResolutionStands'
    BY DEF Roles, GateLooked, IsDefinition, BlockedPublishIsRaced, ResolutionStands
  <2>2. Resolvers'
    BY DEF Resolvers
  <2> QED
    BY <1>1, <2>1, <2>2
<1> QED
  BY <1>2, <1>3

\* The inductive invariant of blockers and of the gate that reads them.
THEOREM BlockerSafe == RailsSpec => []BlockerInv
BY BlockerInit, BlockerNext, PTL DEF RailsSpec

\* A definition goes live over an open blocker only when the blocker was raised after the
\* gate had looked, for any number of requests and blockers.
THEOREM BlockedPublishIsRacedHolds == RailsSpec => []BlockedPublishIsRaced
<1>1. BlockerInv => BlockedPublishIsRaced
  BY DEF BlockerInv
<1> QED
  BY <1>1, BlockerSafe, PTL

\* A resolution that was answered and not lost to a death is the recorded one, for good.
THEOREM ResolutionStandsHolds == RailsSpec => []ResolutionStands
<1>1. BlockerInv => ResolutionStands
  BY DEF BlockerInv
<1> QED
  BY <1>1, BlockerSafe, PTL

-----------------------------------------------------------------------------
(* Versions *)

Live(r) == step[r] \notin {"new", "done"}
HasLive(r) == \E v \in Version : row[v] = "published" \/ <<v, "published">> \in wrote[r]

\* Nothing is written before the seed is settled.
Clean == \A r \in Request : step[r] \in {"new", "seeding"} => wrote[r] = {}

\* Who has published holds the rail's lock, and on a definition who has drafted does too.
HoldsRail == \A r \in Request, v \in Version : Live(r) =>
    /\ <<v, "published">> \in wrote[r] => lock["versions"] = r
    /\ IsDefinition /\ <<v, "draft">> \in wrote[r] => lock["versions"] = r

\* The rulebook's sequence is ahead of every version there is, committed or not.
SerialAhead == ~IsDefinition => \A v \in Version : v > serial =>
    /\ row[v] = "absent"
    /\ \A r \in Request, s \in {"draft", "published"} : Live(r) => <<v, s>> \notin wrote[r]

\* An uncommitted draft has its number to itself.
DraftsAreFresh == \A r \in Request, v \in Version : Live(r) /\ <<v, "draft">> \in wrote[r] =>
    /\ row[v] = "absent"
    /\ \A q \in Request, s \in {"draft", "published"} : Live(q) /\ q # r => <<v, s>> \notin wrote[q]

\* An uncommitted publish is above everything published.
NewestPublished == \A r \in Request, v, w \in Version :
    Live(r) /\ <<v, "published">> \in wrote[r] /\ row[w] = "published" => w < v

\* On a seeded rail a request past its seed has a live version to read, and so does
\* everybody once there is any version.
SeedHolds == IsSeeded =>
    /\ (\E v \in Version : row[v] # "absent") => \E v \in Version : row[v] = "published"
    /\ \A r \in Request :
          Live(r) /\ ((does[r] \in {"read", "draft", "publish"} /\ step[r] # "seeding")
                      \/ wrote[r] # {}) => HasLive(r)

VersionInv == RailsTypeOK /\ Clean /\ HoldsRail /\ SerialAhead /\ DraftsAreFresh
              /\ NewestPublished /\ SeedHolds
VersionParts == Clean /\ HoldsRail /\ SerialAhead /\ DraftsAreFresh /\ NewestPublished /\ SeedHolds

LEMMA SeenByNone ==
    ASSUME RailsTypeOK, NEW r \in Request, SeenBy(r) = {}
    PROVE  wrote[r] = {} /\ \A v \in Version : row[v] = "absent"
<1>1. \A v \in Version : Sees(r, v) = "absent"
  BY DEF SeenBy
<1>2. \A v \in Version : /\ <<v, "published">> \notin wrote[r] /\ <<v, "draft">> \notin wrote[r]
                         /\ row[v] = "absent"
  BY <1>1 DEF Sees
<1>3. \A x \in wrote[r] : \E v \in Version : x = <<v, "draft">> \/ x = <<v, "published">>
  BY DEF RailsTypeOK
<1> QED
  BY <1>2, <1>3

\* A step that writes no version: the request goes on, and its seed was settled.
LEMMA QuietStep ==
    ASSUME VersionInv, NEW r \in Request, Others(r), rail' = rail, Live(r),
           UNCHANGED <<row, serial, wrote>>, lock'["versions"] = lock["versions"],
           does'[r] = does[r], step[r] # "seeding",
           step'[r] # "new", step'[r] = "seeding" => wrote[r] = {}
    PROVE  VersionParts'
<1> USE DEF VersionInv
<1>1. \A q \in Request : Live(q)' => Live(q)
  BY DEF Others, Live
<1>2. Clean'
  BY DEF Others, Clean
<1>3. HoldsRail'
  BY <1>1 DEF HoldsRail, IsDefinition
<1>4. SerialAhead'
  BY <1>1 DEF SerialAhead, IsDefinition
<1>5. DraftsAreFresh' /\ NewestPublished'
  BY <1>1 DEF DraftsAreFresh, NewestPublished
<1>6. SeedHolds'
  <2>1. \A q \in Request :
          Live(q)' /\ ((does'[q] \in {"read", "draft", "publish"} /\ step'[q] # "seeding")
                       \/ wrote'[q] # {})
          => Live(q) /\ ((does[q] \in {"read", "draft", "publish"} /\ step[q] # "seeding")
                         \/ wrote[q] # {})
    BY <1>1 DEF Others
  <2> QED
    BY <2>1 DEF SeedHolds, HasLive, IsSeeded
<1> QED
  BY <1>2, <1>3, <1>4, <1>5, <1>6 DEF VersionParts

LEMMA VersionQuiet ==
    ASSUME VersionInv, Roles, NEW r \in Request,
           \/ ReadActive(r) \/ PassBlockerGate(r) \/ PassConfigGate(r)
           \/ RaiseBlocker(r) \/ ResolveBlocker(r) \/ SaveConfig(r)
    PROVE  VersionParts'
<1> USE DEF versionVars, configVars, blockerVars, RailsGoto, Answer
<1>1. Others(r) /\ rail' = rail
  BY OthersStay DEF VersionInv, RailStep, StoreStep
<1>2. CASE SaveConfig(r)
  <2>1. MustSeed(r) => wrote[r] = {}
    BY SeenByNone DEF MustSeed, VersionInv
  <2> QED
    BY <1>1, <1>2, <2>1, QuietStep
       DEF SaveConfig, LocksConfig, Take, Live, VersionInv, RailsTypeOK
<1>3. CASE ReadActive(r) \/ PassBlockerGate(r) \/ PassConfigGate(r)
  BY <1>1, <1>3, QuietStep DEF ReadActive, PassBlockerGate, PassConfigGate, Live, VersionInv, RailsTypeOK
<1>4. CASE RaiseBlocker(r) \/ ResolveBlocker(r)
  BY <1>1, <1>4, QuietStep DEF RaiseBlocker, ResolveBlocker, Live, VersionInv, RailsTypeOK
<1> QED
  BY <1>2, <1>3, <1>4

LEMMA VersionStart ==
    ASSUME VersionInv, NEW r \in Request, StartRequest(r)
    PROVE  VersionParts'
<1> USE DEF VersionInv
<1>1. Others(r) /\ rail' = rail
  BY OthersStay DEF RailStep
<1>2. UNCHANGED <<row, serial, wrote, lock>> /\ step[r] = "new" /\ wrote[r] = {}
  BY DEF StartRequest, versionVars, Clean
<1>3. PICK o \in Operation :
        /\ does' = [does EXCEPT ![r] = o]
        /\ step' = [step EXCEPT ![r] = IF o \in {"read", "draft", "publish"} /\ MustSeed(r)
                                       THEN "seeding" ELSE First(o)]
  BY DEF StartRequest, RailsGoto
<1>4. /\ does'[r] = o /\ step'[r] \in {"seeding", "gating", "working"}
      /\ o \in {"read", "draft", "publish"} /\ step'[r] # "seeding" => ~MustSeed(r)
  BY <1>3 DEF First, RailsTypeOK
<1>5. Clean'
  BY <1>1, <1>2 DEF Others, Clean
<1>6. \A q \in Request : Live(q)' => q = r \/ Live(q)
  BY <1>1 DEF Others, Live
<1>7. HoldsRail' /\ SerialAhead'
  BY <1>2, <1>6, <1>1 DEF HoldsRail, SerialAhead, IsDefinition
<1>8. DraftsAreFresh' /\ NewestPublished'
  BY <1>2, <1>6 DEF DraftsAreFresh, NewestPublished
<1>9. SeedHolds'
  <2>1. ~MustSeed(r) /\ IsSeeded => \E v \in Version : row[v] # "absent"
    BY <1>2 DEF MustSeed, SeenBy, Sees
  <2>2. \A q \in Request : q # r /\ Live(q)' => Live(q)
    BY <1>6
  <2>3. ASSUME IsSeeded
        PROVE  \A q \in Request :
          Live(q)' /\ ((does'[q] \in {"read", "draft", "publish"} /\ step'[q] # "seeding")
                       \/ wrote'[q] # {}) => HasLive(q)'
    <3>1. ASSUME NEW q \in Request, q # r, Live(q)',
                 (does'[q] \in {"read", "draft", "publish"} /\ step'[q] # "seeding") \/ wrote'[q] # {}
          PROVE  HasLive(q)'
      BY <1>1, <1>2, <2>2, <2>3, <3>1 DEF Others, SeedHolds, HasLive
    <3>2. ASSUME (does'[r] \in {"read", "draft", "publish"} /\ step'[r] # "seeding") \/ wrote'[r] # {}
          PROVE  HasLive(r)'
      BY <1>2, <1>4, <2>1, <2>3, <3>2 DEF SeedHolds, HasLive
    <3> QED
      BY <3>1, <3>2
  <2> QED
    BY <1>1, <1>2, <2>3 DEF SeedHolds, IsSeeded
<1> QED
  BY <1>5, <1>7, <1>8, <1>9 DEF VersionParts

\* A step that writes version n in status s: what it must have made sure of.
LEMMA WriteStep ==
    ASSUME VersionInv, NEW r \in Request, Others(r), rail' = rail, row' = row, Live(r),
           NEW n \in Version, NEW s \in {"draft", "published"},
           wrote' = [wrote EXCEPT ![r] = @ \union {<<n, s>>}],
           does'[r] = does[r], step'[r] \in {"working", "gating", "committing"},
           \/ Free("versions", r) /\ lock'["versions"] = r
           \/ s = "draft" /\ ~IsDefinition /\ lock'["versions"] = lock["versions"],
           serial' \in Int, ~IsDefinition => serial =< serial' /\ n =< serial',
           \A q \in Request : q # r /\ Live(q) =>
               <<n, "draft">> \notin wrote[q] /\ (s = "draft" => <<n, "published">> \notin wrote[q]),
           s = "draft" => row[n] = "absent",
           s = "published" => \A w \in Version : row[w] = "published" => w < n,
           IsSeeded => s = "published" \/ HasLive(r)
    PROVE  VersionParts'
<1> USE DEF VersionInv
<1>1. /\ wrote'[r] = wrote[r] \union {<<n, s>>}
      /\ \A q \in Request : q # r => wrote'[q] = wrote[q]
  BY DEF RailsTypeOK
<1>2. \A q \in Request : Live(q)' => Live(q)
  BY DEF Others, Live
<1>3. \A v \in Version, t \in {"draft", "published"} :
        <<v, t>> \in wrote'[r] => <<v, t>> \in wrote[r] \/ (v = n /\ t = s)
  <2> TAKE v \in Version, t \in {"draft", "published"}
  <2>1. <<v, t>> \in wrote'[r] => <<v, t>> \in wrote[r] \/ <<v, t>> = <<n, s>>
    BY <1>1
  <2>2. <<v, t>> = <<n, s>> => v = n /\ t = s
    OBVIOUS
  <2> QED
    BY <2>1, <2>2
<1>4. Clean'
  BY <1>1 DEF Others, Clean
<1>5. HoldsRail'
  <2>1. CASE Free("versions", r) /\ lock'["versions"] = r
    <3>1. \A q \in Request : q # r => lock["versions"] # q
      BY <2>1, NoRequestAssumption DEF Free
    <3>2. ASSUME NEW q \in Request, q # r, Live(q)', NEW v \in Version
          PROVE  /\ <<v, "published">> \notin wrote'[q]
                 /\ IsDefinition => <<v, "draft">> \notin wrote'[q]
      BY <1>1, <1>2, <3>1, <3>2 DEF HoldsRail
    <3> QED
      BY <2>1, <3>2 DEF HoldsRail, IsDefinition
  <2>2. CASE s = "draft" /\ ~IsDefinition /\ lock'["versions"] = lock["versions"]
    BY <1>1, <1>2, <1>3, <2>2 DEF HoldsRail, IsDefinition
  <2> QED
    BY <2>1, <2>2
<1>6. SerialAhead'
  <2> SUFFICES ASSUME ~IsDefinition, NEW v \in Version, v > serial'
               PROVE  /\ row[v] = "absent"
                      /\ \A q \in Request, t \in {"draft", "published"} :
                            Live(q)' => <<v, t>> \notin wrote'[q]
    BY DEF SerialAhead, IsDefinition
  <2>1. v > serial /\ v # n
    BY DEF RailsTypeOK, Version
  <2> QED
    BY <1>1, <1>2, <1>3, <2>1 DEF SerialAhead
<1>7. DraftsAreFresh'
  <2> SUFFICES ASSUME NEW q \in Request, NEW v \in Version, Live(q)', <<v, "draft">> \in wrote'[q]
               PROVE  /\ row[v] = "absent"
                      /\ \A p \in Request, t \in {"draft", "published"} :
                            Live(p)' /\ p # q => <<v, t>> \notin wrote'[p]
    BY DEF DraftsAreFresh
  <2>1. CASE q = r /\ v = n /\ s = "draft"
    <3>1. \A p \in Request, t \in {"draft", "published"} :
             Live(p)' /\ p # q => <<v, t>> \notin wrote'[p]
      BY <1>1, <1>2, <2>1
    <3> QED
      BY <2>1, <3>1
  <2>2. CASE <<v, "draft">> \in wrote[q]
    <3>1. Live(q) /\ row[v] = "absent"
      BY <1>2, <2>2 DEF DraftsAreFresh
    <3>2. \A p \in Request, t \in {"draft", "published"} :
             Live(p) /\ p # q => <<v, t>> \notin wrote[p]
      BY <2>2, <3>1 DEF DraftsAreFresh
    <3>3. q # r => v # n
      BY <2>2, <3>1
    <3>4. \A p \in Request, t \in {"draft", "published"} :
             Live(p)' /\ p # q => <<v, t>> \notin wrote'[p]
      BY <1>1, <1>2, <1>3, <3>2, <3>3
    <3> QED
      BY <3>1, <3>4
  <2> QED
    BY <1>1, <1>3, <2>1, <2>2
<1>8. NewestPublished'
  <2> SUFFICES ASSUME NEW q \in Request, NEW v \in Version, NEW w \in Version,
                      Live(q)', <<v, "published">> \in wrote'[q], row[w] = "published"
               PROVE  w < v
    BY DEF NewestPublished
  <2>1. CASE q = r /\ v = n /\ s = "published"
    BY <2>1
  <2>2. CASE <<v, "published">> \in wrote[q]
    BY <1>2, <2>2 DEF NewestPublished
  <2> QED
    BY <1>1, <1>3, <2>1, <2>2
<1>9. SeedHolds'
  <2>1. IsSeeded => HasLive(r)'
    BY <1>1 DEF HasLive
  <2>2. ASSUME IsSeeded, NEW q \in Request, q # r, Live(q)',
               (does'[q] \in {"read", "draft", "publish"} /\ step'[q] # "seeding") \/ wrote'[q] # {}
        PROVE  HasLive(q)'
    BY <1>1, <1>2, <2>2 DEF Others, SeedHolds, HasLive
  <2> QED
    BY <2>1, <2>2 DEF SeedHolds, IsSeeded
<1> QED
  BY <1>4, <1>5, <1>6, <1>7, <1>8, <1>9 DEF VersionParts

LEMMA VersionSeed ==
    ASSUME VersionInv, Roles, NEW r \in Request, SeedIfFresh(r)
    PROVE  VersionParts'
<1> USE DEF VersionInv
<1>1. Others(r) /\ rail' = rail
  BY OthersStay DEF RailStep
<1>2. /\ step[r] = "seeding" /\ Live(r) /\ wrote[r] = {}
      /\ Free("versions", r) /\ lock'["versions"] = r /\ row' = row /\ does' = does
      /\ step'[r] \in {"working", "gating", "committing"}
  BY DEF SeedIfFresh, Live, Clean, Take, RailsGoto, Answer, First, RailsTypeOK
<1>3. \A q \in Request, v \in Version : Live(q) => <<v, "published">> \notin wrote[q]
  BY <1>2, NoRequestAssumption DEF HoldsRail, Free
<1>4. CASE SeenBy(r) # {}
  <2>1. wrote' = wrote /\ serial' = serial
    BY <1>4 DEF SeedIfFresh
  <2>2. \A q \in Request : Live(q)' => Live(q)
    BY <1>1, <1>2 DEF Others, Live
  <2>3. Clean' /\ SerialAhead' /\ DraftsAreFresh' /\ NewestPublished'
    BY <1>1, <1>2, <2>1, <2>2
       DEF Others, Clean, SerialAhead, DraftsAreFresh, NewestPublished, IsDefinition
  <2>4. HoldsRail'
    <3>1. \A q \in Request : Live(q) => \A v \in Version :
            /\ <<v, "published">> \notin wrote[q]
            /\ IsDefinition => <<v, "draft">> \notin wrote[q]
      BY <1>2, NoRequestAssumption DEF HoldsRail, Free
    <3> QED
      BY <1>1, <2>1, <2>2, <3>1 DEF HoldsRail, IsDefinition
  <2>5. SeedHolds'
    <3>1. \E v \in Version : row[v] # "absent"
      BY <1>2, <1>4 DEF SeenBy, Sees
    <3>2. IsSeeded => \A q \in Request : HasLive(q)'
      BY <1>2, <3>1 DEF SeedHolds, HasLive
    <3> QED
      BY <1>1, <1>2, <3>2 DEF SeedHolds, IsSeeded
  <2> QED
    BY <2>3, <2>4, <2>5 DEF VersionParts
<1>5. CASE SeenBy(r) = {}
  <2> DEFINE n == IF IsDefinition THEN 1 ELSE serial + 1
  <2>1. /\ n \in Version /\ wrote' = [wrote EXCEPT ![r] = @ \union {<<n, "published">>}]
        /\ serial' = IF IsDefinition THEN serial ELSE n
    BY <1>5 DEF SeedIfFresh
  <2>2. \A v \in Version : row[v] = "absent"
    BY <1>5, SeenByNone
  <2>3. serial' \in Int /\ (~IsDefinition => serial =< serial' /\ n =< serial')
    BY <2>1 DEF Version, RailsTypeOK
  <2>4. \A q \in Request : q # r /\ Live(q) => <<n, "draft">> \notin wrote[q]
    <3>1. CASE IsDefinition
      BY <1>2, <2>1, <3>1, NoRequestAssumption DEF HoldsRail, Free
    <3>2. CASE ~IsDefinition
      <4>1. n > serial
        BY <3>2 DEF RailsTypeOK
      <4> QED
        BY <2>1, <3>2, <4>1 DEF SerialAhead
    <3> QED
      BY <3>1, <3>2
  <2> HIDE DEF n
  <2> QED
    BY <1>1, <1>2, <2>1, <2>2, <2>3, <2>4, WriteStep
<1> QED
  BY <1>4, <1>5

LEMMA VersionDraft ==
    ASSUME VersionInv, NEW r \in Request, CreateDraft(r)
    PROVE  VersionParts'
<1> USE DEF VersionInv
<1> DEFINE n == DraftNumber(r)
<1>1. Others(r) /\ rail' = rail
  BY OthersStay DEF RailStep
<1>2. /\ step[r] = "working" /\ does[r] = "draft" /\ Live(r) /\ n \in Version
      /\ row' = row /\ does' = does /\ step'[r] = "committing"
      /\ wrote' = [wrote EXCEPT ![r] = @ \union {<<n, "draft">>}]
      /\ serial' = IF IsDefinition THEN serial ELSE serial + 1
  BY DEF CreateDraft, Live, RailsGoto, Answer, RailsTypeOK
<1>3. \/ IsDefinition /\ Free("versions", r) /\ lock'["versions"] = r
      \/ ~IsDefinition /\ lock' = lock
  BY DEF CreateDraft, LocksToDraft, Take, RailsTypeOK
<1>4. serial' \in Int /\ (~IsDefinition => serial =< serial' /\ n =< serial')
  BY <1>2 DEF DraftNumber, RailsTypeOK
<1>5. row[n] = "absent"
  <2>1. CASE IsDefinition
    <3>1. SeenBy(r) \in SUBSET Version /\ n = Highest(SeenBy(r)) + 1
      BY <2>1 DEF DraftNumber, SeenBy
    <3>2. n \notin SeenBy(r)
      BY <1>2, <3>1, HighestIsHighest
    <3>3. Sees(r, n) = "absent"
      BY <1>2, <3>2 DEF SeenBy
    <3> QED
      BY <3>3 DEF Sees
  <2>2. CASE ~IsDefinition
    <3>1. n > serial
      BY <2>2 DEF DraftNumber, RailsTypeOK
    <3> QED
      BY <1>2, <2>2, <3>1 DEF SerialAhead
  <2> QED
    BY <2>1, <2>2
<1>6. \A q \in Request : q # r /\ Live(q) =>
         <<n, "draft">> \notin wrote[q] /\ <<n, "published">> \notin wrote[q]
  <2>1. CASE IsDefinition
    BY <1>2, <1>3, <2>1, NoRequestAssumption DEF HoldsRail, Free
  <2>2. CASE ~IsDefinition
    <3>1. n > serial
      BY <2>2 DEF DraftNumber, RailsTypeOK
    <3> QED
      BY <1>2, <2>2, <3>1 DEF SerialAhead
  <2> QED
    BY <2>1, <2>2
<1>7. IsSeeded => HasLive(r)
  BY <1>2 DEF SeedHolds
<1> HIDE DEF n
<1> QED
  BY <1>1, <1>2, <1>3, <1>4, <1>5, <1>6, <1>7, WriteStep

LEMMA VersionClaim ==
    ASSUME VersionInv, NEW r \in Request, ClaimPublish(r)
    PROVE  VersionParts'
<1> USE DEF VersionInv
<1> DEFINE n == target[r]
<1>1. Others(r) /\ rail' = rail
  BY OthersStay DEF RailStep
<1>2. /\ step[r] = "claiming" /\ Live(r) /\ n \in Version
      /\ row' = row /\ does' = does /\ serial' = serial /\ step'[r] = "committing"
      /\ wrote' = [wrote EXCEPT ![r] = @ \union {<<n, "published">>}]
      /\ Free("versions", r) /\ lock'["versions"] = r
      /\ Sees(r, n) = "draft" /\ n >= Highest(Published(r))
  BY DEF ClaimPublish, Live, RailsGoto, Answer, LocksToPublish, Take, MayPublish, RailsTypeOK
<1>3. \/ <<n, "draft">> \in wrote[r]
      \/ row[n] = "draft"
  BY <1>2 DEF Sees
<1>4. \A q \in Request : q # r /\ Live(q) => <<n, "draft">> \notin wrote[q]
  BY <1>2, <1>3 DEF DraftsAreFresh
<1>5. serial' \in Int /\ (~IsDefinition => serial =< serial' /\ n =< serial')
  <2>1. ~IsDefinition => ~(n > serial)
    BY <1>2, <1>3 DEF SerialAhead
  <2> QED
    BY <1>2, <2>1 DEF RailsTypeOK, Version
<1>6. \A w \in Version : row[w] = "published" => w < n
  <2> SUFFICES ASSUME NEW w \in Version, row[w] = "published" PROVE w < n
    OBVIOUS
  <2>1. <<w, "draft">> \notin wrote[r]
    BY <1>2 DEF DraftsAreFresh
  <2>2. Sees(r, w) = "published"
    BY <2>1 DEF Sees
  <2>3. w # n /\ w \in Published(r)
    BY <1>2, <2>2 DEF Published
  <2>4. Published(r) \in SUBSET Version
    BY DEF Published
  <2>5. Highest(Published(r)) \in Int /\ w =< Highest(Published(r))
    BY <2>3, <2>4, HighestIsHighest
  <2> QED
    BY <1>2, <2>3, <2>5 DEF Version
<1> HIDE DEF n
<1> QED
  BY <1>1, <1>2, <1>4, <1>5, <1>6, WriteStep

\* What a commit makes of the rows.
LEMMA CommittedRows ==
    ASSUME VersionInv, NEW r \in Request, Commit(r), NEW v \in Version
    PROVE  /\ row'[v] = "published" <=> row[v] = "published" \/ <<v, "published">> \in wrote[r]
           /\ row'[v] = "absent" => row[v] = "absent"
           /\ row[v] = "absent" /\ row'[v] # "absent" =>
                 <<v, "draft">> \in wrote[r] \/ <<v, "published">> \in wrote[r]
<1>1. row'[v] = Sees(r, v) /\ Live(r)
  BY DEF Commit, Live
<1>2. <<v, "draft">> \in wrote[r] => row[v] = "absent"
  BY <1>1 DEF VersionInv, DraftsAreFresh
<1> QED
  BY <1>1, <1>2 DEF Sees

\* A request that leaves takes its locks with it.
LEMMA VersionLeave ==
    ASSUME VersionInv, NEW r \in Request, Others(r), rail' = rail, serial' = serial,
           step'[r] = "done", ReleaseAll(r),
           \A v \in Version : row'[v] = row[v]
    PROVE  VersionParts'
<1> USE DEF VersionInv
<1>1. \A q \in Request : Live(q)' => q # r /\ Live(q)
  BY DEF Others, Live
<1>2. \A q \in Request : q # r /\ lock["versions"] = q => lock'["versions"] = q
  BY DEF ReleaseAll, RailsTypeOK
<1>3. Clean' /\ HoldsRail' /\ SerialAhead'
  BY <1>1, <1>2 DEF Others, Clean, HoldsRail, SerialAhead, IsDefinition
<1>4. DraftsAreFresh' /\ NewestPublished'
  BY <1>1 DEF Others, DraftsAreFresh, NewestPublished
<1>5. SeedHolds'
  <2>1. ASSUME IsSeeded, NEW q \in Request, Live(q)',
               (does'[q] \in {"read", "draft", "publish"} /\ step'[q] # "seeding") \/ wrote'[q] # {}
        PROVE  HasLive(q)'
    BY <1>1, <2>1 DEF Others, SeedHolds, HasLive
  <2> QED
    BY <2>1 DEF SeedHolds, IsSeeded
<1> QED
  BY <1>3, <1>4, <1>5 DEF VersionParts

LEMMA VersionEnds ==
    ASSUME VersionInv, NEW r \in Request, Ends(r)
    PROVE  VersionParts'
<1>1. Others(r) /\ rail' = rail
  BY OthersStay DEF VersionInv
<1>2. serial' = serial /\ row' = row /\ step'[r] = "done" /\ ReleaseAll(r)
  BY EndsRollBack DEF RollBack, RailsGoto, VersionInv, RailsTypeOK
<1> QED
  BY <1>1, <1>2, VersionLeave

LEMMA VersionCommit ==
    ASSUME VersionInv, NEW r \in Request, Commit(r)
    PROVE  VersionParts'
<1> USE DEF VersionInv
<1>1. Others(r) /\ rail' = rail
  BY OthersStay DEF StoreStep
<1>2. serial' = serial /\ wrote' = wrote /\ step[r] = "committing" /\ step'[r] = "done" /\ Live(r)
  BY DEF Commit, RailsGoto, Live, RailsTypeOK
<1>3. \A q \in Request : Live(q)' => q # r /\ Live(q)
  BY <1>1, <1>2 DEF Others, Live
<1>4. \A q \in Request : q # r /\ lock["versions"] = q => lock'["versions"] = q
  BY DEF Commit, ReleaseAll, RailsTypeOK
<1>5. Clean' /\ HoldsRail'
  BY <1>1, <1>2, <1>3, <1>4 DEF Others, Clean, HoldsRail, IsDefinition
<1>6. SerialAhead'
  <2> SUFFICES ASSUME ~IsDefinition, NEW v \in Version, v > serial
               PROVE  row'[v] = "absent"
    BY <1>1, <1>2, <1>3 DEF SerialAhead, IsDefinition
  <2>1. /\ row[v] = "absent"
        /\ <<v, "draft">> \notin wrote[r] /\ <<v, "published">> \notin wrote[r]
    BY <1>2 DEF SerialAhead
  <2> QED
    BY <2>1, CommittedRows
<1>7. DraftsAreFresh'
  <2> SUFFICES ASSUME NEW q \in Request, NEW v \in Version, Live(q)', <<v, "draft">> \in wrote[q]
               PROVE  row'[v] = "absent"
    BY <1>1, <1>2, <1>3 DEF DraftsAreFresh
  <2>1. /\ row[v] = "absent"
        /\ <<v, "draft">> \notin wrote[r] /\ <<v, "published">> \notin wrote[r]
    BY <1>2, <1>3 DEF DraftsAreFresh
  <2> QED
    BY <2>1, CommittedRows
<1>8. NewestPublished'
  <2> SUFFICES ASSUME NEW q \in Request, NEW v \in Version, NEW w \in Version,
                      Live(q)', <<v, "published">> \in wrote[q], row'[w] = "published"
               PROVE  w < v
    BY <1>2 DEF NewestPublished
  <2>1. q # r /\ Live(q) /\ lock["versions"] = q
    BY <1>3 DEF HoldsRail
  <2>2. <<w, "published">> \notin wrote[r]
    BY <1>2, <2>1 DEF HoldsRail
  <2>3. row[w] = "published"
    BY <2>2, CommittedRows
  <2> QED
    BY <2>1, <2>3 DEF NewestPublished
<1>9. SeedHolds'
  <2>1. \A v \in Version : row[v] = "published" => row'[v] = "published"
    BY CommittedRows
  <2>2. ASSUME IsSeeded, NEW v \in Version, row'[v] # "absent"
        PROVE  \E w \in Version : row'[w] = "published"
    <3>1. CASE row[v] # "absent"
      BY <2>1, <2>2, <3>1 DEF SeedHolds
    <3>2. CASE row[v] = "absent"
      <4>1. wrote[r] # {}
        BY <2>2, <3>2, CommittedRows
      <4>2. HasLive(r)
        BY <1>2, <2>2, <4>1 DEF SeedHolds
      <4> QED
        BY <4>2, CommittedRows DEF HasLive
    <3> QED
      BY <3>1, <3>2
  <2>3. ASSUME IsSeeded, NEW q \in Request, Live(q)',
               (does'[q] \in {"read", "draft", "publish"} /\ step'[q] # "seeding") \/ wrote'[q] # {}
        PROVE  HasLive(q)'
    BY <1>1, <1>2, <1>3, <2>1, <2>3 DEF Others, SeedHolds, HasLive
  <2> QED
    BY <1>1, <2>2, <2>3 DEF SeedHolds, IsSeeded
<1> QED
  BY <1>5, <1>6, <1>7, <1>8, <1>9 DEF VersionParts

LEMMA VersionInit == RailsInit => VersionInv
<1> SUFFICES ASSUME RailsInit PROVE VersionInv
  OBVIOUS
<1>1. \A r \in Request : step[r] = "new" /\ wrote[r] = {}
  BY DEF RailsInit
<1>2. \A v \in Version : v > serial => row[v] = "absent"
  BY DEF RailsInit
<1>3. (\E v \in Version : row[v] # "absent") => row[1] = "published" /\ 1 \in Version
  <2> SUFFICES ASSUME NEW v \in Version, row[v] # "absent"
               PROVE  row[1] = "published" /\ 1 \in Version
    OBVIOUS
  <2>1. v \in Int /\ v >= 1 /\ serial \in Int /\ 1 \in Version
    BY RailsBoundsAssumption DEF RailsInit, Version
  <2>2. ~(1 > serial)
    BY <1>2, <2>1
  <2> QED
    BY <2>1, <2>2 DEF RailsInit
<1>4. Clean /\ HoldsRail /\ SerialAhead /\ DraftsAreFresh /\ NewestPublished /\ SeedHolds
  BY <1>1, <1>2, <1>3
     DEF Live, Clean, HoldsRail, SerialAhead, DraftsAreFresh, NewestPublished, SeedHolds
<1> QED
  BY <1>4, InitType DEF VersionInv

LEMMA VersionStay == VersionInv /\ UNCHANGED railsVars => VersionParts'
<1> SUFFICES ASSUME VersionInv, UNCHANGED railsVars PROVE VersionParts'
  OBVIOUS
<1> USE DEF railsVars, versionVars, configVars, blockerVars, VersionInv
<1>1. Clean' /\ HoldsRail' /\ SerialAhead' /\ DraftsAreFresh' /\ NewestPublished'
  BY DEF Clean, HoldsRail, SerialAhead, DraftsAreFresh, NewestPublished, Live, IsDefinition
<1>2. SeedHolds'
  BY DEF SeedHolds, HasLive, Live, IsSeeded
<1> QED
  BY <1>1, <1>2 DEF VersionParts

LEMMA VersionNext ==
    Roles /\ VersionInv /\ [RailsNext]_railsVars => Roles' /\ VersionInv'
<1> SUFFICES ASSUME Roles, VersionInv, [RailsNext]_railsVars PROVE Roles' /\ VersionInv'
  OBVIOUS
<1>1. RailsTypeOK'
  BY NextType DEF VersionInv
<1>2. CASE RailsNext
  <2>1. PICK r \in Request : RailStep(r) \/ StoreStep(r) \/ Ends(r)
    BY <1>2, NextCases
  <2>2. Roles'
    BY <2>1, RolesStep DEF VersionInv
  <2>3. VersionParts'
    <3>1. CASE RailStep(r)
      BY <3>1, VersionStart, VersionSeed, VersionQuiet, VersionDraft, VersionClaim DEF RailStep
    <3>2. CASE StoreStep(r)
      BY <3>2, VersionQuiet, VersionCommit DEF StoreStep
    <3>3. CASE Ends(r)
      BY <3>3, VersionEnds
    <3> QED
      BY <2>1, <3>1, <3>2, <3>3
  <2> QED
    BY <1>1, <2>2, <2>3 DEF VersionParts, VersionInv
<1>3. CASE UNCHANGED railsVars
  <2>1. Roles'
    BY <1>3 DEF railsVars, versionVars, configVars, blockerVars, Roles
  <2> QED
    BY <1>1, <1>3, <2>1, VersionStay DEF VersionParts, VersionInv
<1> QED
  BY <1>2, <1>3

\* The inductive invariant of the versions: who has written what, uncommitted, and why that
\* keeps numbers distinct and the live version growing.
THEOREM VersionsSafe == RailsSpec => [](Roles /\ VersionInv)
<1>1. RailsInit => Roles
  BY DEF RailsInit, Roles
<1> QED
  BY <1>1, VersionInit, VersionNext, PTL DEF RailsSpec

\* Two versions never share a number, whether the draft is numbered under the lock (a
\* definition) or by the sequence (the rulebook).
THEOREM NumbersDistinctHolds == RailsSpec => []NumbersDistinct
<1>1. VersionInv => NumbersDistinct
  BY DEF VersionInv, DraftsAreFresh, NumbersDistinct, Live
<1> QED
  BY <1>1, VersionsSafe, PTL

\* A seeded rail has a published version from its first version on, and every reader
\* answered found one.
THEOREM AlwaysLiveHolds == RailsSpec => []AlwaysLive
<1>1. ASSUME VersionInv PROVE AlwaysLive
  <2> USE <1>1 DEF VersionInv
  <2>1. ASSUME IsSeeded, NEW r \in Request, does[r] = "read", step[r] = "committing"
        PROVE  Published(r) # {}
    <3>1. Live(r)
      BY <2>1 DEF Live
    <3>2. HasLive(r)
      BY <2>1, <3>1 DEF SeedHolds
    <3>3. \A v \in Version : row[v] = "published" => <<v, "draft">> \notin wrote[r]
      BY <3>1 DEF DraftsAreFresh
    <3>4. PICK v \in Version : row[v] = "published" \/ <<v, "published">> \in wrote[r]
      BY <3>2 DEF HasLive
    <3>5. Sees(r, v) = "published"
      BY <3>3, <3>4 DEF Sees
    <3> QED
      BY <3>5 DEF Published
  <2> QED
    BY <2>1 DEF SeedHolds, AlwaysLive
<1> QED
  BY <1>1, VersionsSafe, PTL

\* A publish that commits makes its version the live one.
THEOREM PublishedBecomesLiveHolds == RailsSpec => PublishedBecomesLive
<1> DEFINE Grows == \A v \in Version : row'[v] = "published" /\ row[v] # "published"
                        => \A w \in Version : row[w] = "published" => w < v
<1>1. ASSUME VersionInv, [RailsNext]_railsVars
      PROVE  [Grows]_railsVars
  <2>1. CASE RailsNext
    <3>1. PICK r \in Request : RailStep(r) \/ StoreStep(r) \/ Ends(r)
      BY <2>1, NextCases
    <3>2. CASE Commit(r)
      <4>1. Live(r)
        BY <3>2 DEF Commit, Live
      <4>2. \A v \in Version : row'[v] = "published" /\ row[v] # "published"
               => <<v, "published">> \in wrote[r]
        BY <1>1, <3>2, CommittedRows
      <4> QED
        BY <1>1, <4>1, <4>2 DEF VersionInv, NewestPublished
    <3>3. CASE ~Commit(r)
      <4>1. row' = row
        <5>1. RailStep(r) => row' = row
          BY DEF RailStep, StartRequest, SeedIfFresh, ReadActive, CreateDraft, PassBlockerGate,
                 PassConfigGate, ClaimPublish, versionVars
        <5>2. StoreStep(r) => row' = row
          BY <3>3 DEF StoreStep, RaiseBlocker, ResolveBlocker, SaveConfig, versionVars
        <5>3. Ends(r) => row' = row
          BY EndsRollBack DEF RollBack
        <5> QED
          BY <3>1, <5>1, <5>2, <5>3
      <4> QED
        BY <4>1
    <3> QED
      BY <3>2, <3>3
  <2>2. CASE UNCHANGED railsVars
    BY <2>2
  <2> QED
    BY <1>1, <2>1, <2>2
<1> QED
  BY <1>1, VersionsSafe, PTL DEF RailsSpec, PublishedBecomesLive
=============================================================================
