-------------------------------- MODULE Rails --------------------------------
(***************************************************************************)
(* The versioned rails: drafts and publishes of one carrier's definition   *)
(* or of the rulebook, the gates a definition passes before it is          *)
(* published (engineer blockers, config, a trial render), and the two      *)
(* stores those gates read: handoff blockers and the carrier's config.     *)
(*                                                                         *)
(* Every request is one Postgres transaction under READ COMMITTED: it sees *)
(* the committed rows and its own, its writes appear when it commits, and  *)
(* an advisory lock it took stays with it to the end.  Its answer leaves   *)
(* before it commits.                                                      *)
(*                                                                         *)
(* The three kinds of rail differ in who numbers a draft and in whether a  *)
(* fresh install seeds them.  They share nothing, so one is chosen at the  *)
(* start and stays.                                                        *)
(***************************************************************************)
EXTENDS Integers, FiniteSets

CONSTANTS
    Request,      \* API requests; each chooses its operation when it starts
    Blocker,      \* handoff blockers that may be raised for the carrier
    Key,          \* keys of the carrier's config
    Drafted,      \* versions an older install already has: a seed and drafts
    MaxVersion,   \* bound on the versions numbered
    MaxDead       \* bound on requests that die before they commit

ASSUME RailsBoundsAssumption ==
    /\ MaxVersion \in Nat \ {0} /\ MaxDead \in Nat
    /\ Drafted \in 0 .. MaxVersion

NoRequest == "no request"
ASSUME NoRequestAssumption == NoRequest \notin Request

Version == 1 .. MaxVersion
Operation == {"read", "draft", "publish", "raise", "resolve", "merge", "replace"}

VARIABLES
    rail,       \* "rulebook", "dropout" (a definition, seeded) or "carrier" (one that is not)
    row,        \* committed status of each version
    serial,     \* last value drawn from the rulebook's primary-key sequence
    lock,       \* holder of each advisory lock
    step,       \* where each request is
    does,       \* its operation
    target,     \* the version it publishes
    wrote,      \* the version rows it has written, uncommitted
    needs,      \* config keys the drafts reference
    config,     \* committed config: the request that set each key
    staged,     \* the config it will commit
    patch,      \* the keys it sets
    blocker,    \* committed status of each blocker
    answer,     \* the request whose resolution is recorded
    resolving,  \* the uncommitted resolver of each blocker's row
    told,       \* history: requests answered with success
    dead,       \* history: requests that died uncommitted
    late,       \* history: requests past the blocker gate when a blocker was raised
    shipped,    \* history: one record per publish that committed
    latest      \* history: the last committed setter of each config key

versionVars == <<row, serial, wrote>>
configVars  == <<config, staged, patch, latest>>
blockerVars == <<blocker, answer, resolving>>
railsVars == <<rail, row, serial, lock, step, does, target, wrote, needs, config, staged,
               patch, blocker, answer, resolving, told, dead, late, shipped, latest>>

RailsTypeOK ==
    /\ rail \in {"rulebook", "dropout", "carrier"}
    /\ row \in [Version -> {"absent", "draft", "published"}]
    /\ serial \in 0 .. MaxVersion
    /\ lock \in [{"versions", "config"} -> Request \union {NoRequest}]
    /\ step \in [Request -> {"new", "seeding", "working", "gating", "configuring",
                             "claiming", "committing", "done"}]
    /\ does \in [Request -> Operation]
    /\ target \in [Request -> Version]
    /\ wrote \in [Request -> SUBSET (Version \X {"draft", "published"})]
    /\ needs \in SUBSET Key
    /\ config \in [Key -> Request \union {NoRequest}]
    /\ staged \in [Request -> [Key -> Request \union {NoRequest}]]
    /\ patch \in [Request -> SUBSET Key]
    /\ blocker \in [Blocker -> {"unraised", "open", "resolved"}]
    /\ answer \in [Blocker -> Request \union {NoRequest}]
    /\ resolving \in [Blocker -> Request \union {NoRequest}]
    /\ told \subseteq Request /\ dead \subseteq Request /\ late \subseteq Request
    /\ shipped \subseteq [version : Version, by : Request, open : BOOLEAN, raced : BOOLEAN]
    /\ latest \in [Key -> Request \union {NoRequest}]

RailsInit ==
    /\ rail \in {"rulebook", "dropout", "carrier"}
    /\ serial \in {0, Drafted}
    /\ row = [v \in Version |-> IF v > serial THEN "absent"
                               ELSE IF v = 1 THEN "published" ELSE "draft"]
    /\ lock = [l \in {"versions", "config"} |-> NoRequest]
    /\ step = [r \in Request |-> "new"]
    /\ does = [r \in Request |-> "read"]
    /\ target = [r \in Request |-> 1]
    /\ wrote = [r \in Request |-> {}]
    /\ needs \in SUBSET Key
    /\ config = [k \in Key |-> NoRequest]
    /\ staged = [r \in Request |-> [k \in Key |-> NoRequest]]
    /\ patch = [r \in Request |-> {}]
    /\ blocker = [b \in Blocker |-> "unraised"]
    /\ answer = [b \in Blocker |-> NoRequest]
    /\ resolving = [b \in Blocker |-> NoRequest]
    /\ told = {} /\ dead = {} /\ late = {} /\ shipped = {}
    /\ latest = [k \in Key |-> NoRequest]

-----------------------------------------------------------------------------
IsDefinition == rail # "rulebook"
IsSeeded     == rail # "carrier"

\* What request r sees of a version: its own write, or else the committed row.
Sees(r, v) == IF <<v, "published">> \in wrote[r] THEN "published"
              ELSE IF <<v, "draft">> \in wrote[r] THEN "draft" ELSE row[v]
SeenBy(r) == {v \in Version : Sees(r, v) # "absent"}
Published(r) == {v \in Version : Sees(r, v) = "published"}
Highest(S) == IF S = {} THEN 0 ELSE CHOOSE v \in S : \A w \in S : w =< v

Free(l, r) == lock[l] \in {NoRequest, r}
Take(l, r) == lock' = [lock EXCEPT ![l] = r]
ReleaseAll(r) == lock' = [l \in DOMAIN lock |-> IF lock[l] = r THEN NoRequest ELSE lock[l]]
RailsGoto(r, where) == step' = [step EXCEPT ![r] = where]
Answer(r) == RailsGoto(r, "committing") /\ told' = told \union {r}

\* An error answer, or a death: the transaction rolls back and its locks go.
RollBack(r) ==
    /\ RailsGoto(r, "done")
    /\ ReleaseAll(r)
    /\ wrote' = [wrote EXCEPT ![r] = {}]
    /\ resolving' = [b \in Blocker |-> IF resolving[b] = r THEN NoRequest ELSE resolving[b]]
    /\ UNCHANGED <<rail, row, serial, does, target, needs, configVars, blocker, answer,
                   late, shipped>>
Refuse(r) == RollBack(r) /\ UNCHANGED <<told, dead>>

\* Every entry point seeds first; a config write saves first and seeds for its answer.
First(o) == IF o = "publish" THEN "gating" ELSE "working"
MustSeed_variant(r) == FALSE
MustSeed(r) == IsSeeded /\ SeenBy(r) = {}

StartRequest(r) ==
    /\ step[r] = "new"
    /\ \E o \in Operation :
          /\ o \in {"read", "draft", "publish"} \/ IsDefinition
          /\ does' = [does EXCEPT ![r] = o]
          /\ RailsGoto(r, IF o \in {"read", "draft", "publish"} /\ MustSeed(r)
                          THEN "seeding" ELSE First(o))
          /\ \E v \in IF o = "publish" THEN Version ELSE {1} : target' = [target EXCEPT ![r] = v]
          /\ \E k \in IF o \in {"merge", "replace"} THEN SUBSET Key ELSE {{}} :
                patch' = [patch EXCEPT ![r] = k]
    /\ UNCHANGED <<rail, versionVars, lock, needs, config, staged, latest, blockerVars,
                   told, dead, late, shipped>>

\* The double-checked seed: the lock, then a second look, then the insert.
SeedIfFresh(r) ==
    /\ step[r] = "seeding"
    /\ Free("versions", r) /\ Take("versions", r)
    /\ LET v == IF IsDefinition THEN 1 ELSE serial + 1 IN
       IF SeenBy(r) # {} THEN UNCHANGED <<wrote, serial>>
       ELSE /\ v \in Version
            /\ wrote' = [wrote EXCEPT ![r] = @ \union {<<v, "published">>}]
            /\ serial' = IF IsDefinition THEN serial ELSE v
    /\ IF does[r] \in {"merge", "replace"} THEN Answer(r)
       ELSE RailsGoto(r, First(does[r])) /\ UNCHANGED told
    /\ UNCHANGED <<rail, row, does, target, needs, configVars, blockerVars, dead, late,
                   shipped>>

\* active_rulebook, active_definition_row: the highest published version.
ReadActive(r) ==
    /\ step[r] = "working" /\ does[r] = "read"
    /\ Answer(r)
    /\ UNCHANGED <<rail, versionVars, lock, does, target, needs, configVars, blockerVars,
                   dead, late, shipped>>

\* A definition draft is numbered under the lock, a rulebook draft by its sequence.
DraftNumber(r) == IF IsDefinition THEN Highest(SeenBy(r)) + 1 ELSE serial + 1
LocksToDraft_variant(r) == UNCHANGED lock
LocksToDraft(r) == IF IsDefinition THEN Free("versions", r) /\ Take("versions", r)
                   ELSE UNCHANGED lock
CreateDraft(r) ==
    /\ step[r] = "working" /\ does[r] = "draft"
    /\ DraftNumber(r) \in Version
    /\ LocksToDraft(r)
    /\ wrote' = [wrote EXCEPT ![r] = @ \union {<<DraftNumber(r), "draft">>}]
    /\ serial' = IF IsDefinition THEN serial ELSE serial + 1
    /\ Answer(r)
    /\ UNCHANGED <<rail, row, does, target, needs, configVars, blockerVars, dead, late,
                   shipped>>

\* The fetch and the first gates: no such version, a draft that no longer validates, or
\* an open blocker refuses.  The rulebook has no gates.
Unblocked_variant(r) == TRUE
Unblocked(r) == IsDefinition => \A b \in Blocker : blocker[b] # "open"
PassBlockerGate(r) ==
    /\ step[r] = "gating"
    /\ target[r] \in SeenBy(r)
    /\ Unblocked(r)
    /\ RailsGoto(r, IF IsDefinition THEN "configuring" ELSE "claiming")
    /\ UNCHANGED <<rail, versionVars, lock, does, target, needs, configVars, blockerVars,
                   told, dead, late, shipped>>

\* The config is read once, for the completeness check and for the trial render.
PassConfigGate(r) ==
    /\ step[r] = "configuring"
    /\ \A k \in needs : config[k] # NoRequest
    /\ RailsGoto(r, "claiming")
    /\ UNCHANGED <<rail, versionVars, lock, does, target, needs, configVars, blockerVars,
                   told, dead, late, shipped>>

\* publish: under the lock, refuse what is not a draft and what would not become live.
\* The guarded UPDATE would also wait for another publisher of the same row.
LocksToPublish_variant(r) == UNCHANGED lock
LocksToPublish(r) == Free("versions", r) /\ Take("versions", r)
MayPublish(r) == Sees(r, target[r]) = "draft" /\ target[r] >= Highest(Published(r))
RowIsFree(r) == \A q \in Request \ {r} : <<target[r], "published">> \notin wrote[q]
                                          \/ step[q] = "done"
ClaimPublish(r) ==
    /\ step[r] = "claiming"
    /\ LocksToPublish(r)
    /\ MayPublish(r) /\ RowIsFree(r)
    /\ wrote' = [wrote EXCEPT ![r] = @ \union {<<target[r], "published">>}]
    /\ Answer(r)
    /\ UNCHANGED <<rail, row, serial, does, target, needs, configVars, blockerVars, dead,
                   late, shipped>>

\* A draft may be invalid and a trial render may fail; the other refusals are the gates'.
RefuseDraft(r) == step[r] = "working" /\ does[r] = "draft" /\ Refuse(r)
RefusePublish(r) ==
    /\ \/ step[r] = "gating" /\ (IsDefinition \/ target[r] \notin SeenBy(r))
       \/ step[r] = "configuring"
       \/ step[r] = "claiming" /\ Free("versions", r) /\ ~MayPublish(r)
    /\ Refuse(r)

-----------------------------------------------------------------------------
(* The stores the gates read.                                               *)

\* A blocker's insert is its whole transaction.  It catches the publishes that have
\* passed the blocker gate and not yet committed.
Overtaken == {q \in Request : does[q] = "publish" /\ step[q] \in {"configuring", "claiming",
                                                                  "committing"}}
RaiseBlocker(r) ==
    /\ step[r] = "working" /\ does[r] = "raise"
    /\ \E b \in Blocker :
          /\ blocker[b] = "unraised"
          /\ blocker' = [blocker EXCEPT ![b] = "open"]
    /\ late' = late \union Overtaken
    /\ told' = told \union {r}
    /\ RailsGoto(r, "done")
    /\ UNCHANGED <<rail, versionVars, lock, does, target, needs, configVars, answer,
                   resolving, dead, shipped>>

\* The guarded UPDATE waits while another resolver has the row, then matches only "open".
WinsBlocker_variant(r, b) == resolving[b] = NoRequest /\ blocker[b] \in {"open", "resolved"}
WinsBlocker(r, b) == resolving[b] = NoRequest /\ blocker[b] = "open"
ResolveBlocker(r) ==
    /\ step[r] = "working" /\ does[r] = "resolve"
    /\ \E b \in Blocker :
          /\ WinsBlocker(r, b)
          /\ resolving' = [resolving EXCEPT ![b] = r]
    /\ Answer(r)
    /\ UNCHANGED <<rail, versionVars, lock, does, target, needs, configVars, blocker,
                   answer, dead, late, shipped>>
RefuseResolve(r) ==
    /\ step[r] = "working" /\ does[r] = "resolve"
    /\ \E b \in Blocker : resolving[b] = NoRequest /\ blocker[b] # "open"
    /\ Refuse(r)

\* A merge starts from the row it reads under the lock, a replace from nothing.
LocksConfig_variant(r) == UNCHANGED lock
LocksConfig(r) == Free("config", r) /\ Take("config", r)
SaveConfig(r) ==
    /\ step[r] = "working" /\ does[r] \in {"merge", "replace"}
    /\ LocksConfig(r)
    /\ staged' = [staged EXCEPT ![r] = [k \in Key |->
                     IF k \in patch[r] THEN r
                     ELSE IF does[r] = "merge" THEN config[k] ELSE NoRequest]]
    /\ IF MustSeed(r) THEN RailsGoto(r, "seeding") /\ UNCHANGED told ELSE Answer(r)
    /\ UNCHANGED <<rail, versionVars, does, target, needs, config, patch, latest,
                   blockerVars, dead, late, shipped>>

-----------------------------------------------------------------------------
\* The end of an answered request: its writes appear and its locks go.
Commit(r) ==
    /\ step[r] = "committing"
    /\ RailsGoto(r, "done")
    /\ ReleaseAll(r)
    /\ row' = [v \in Version |-> Sees(r, v)]
    /\ IF does[r] \in {"merge", "replace"}
       THEN /\ config' = staged[r]
            /\ latest' = [k \in Key |-> IF k \in patch[r] THEN r
                                        ELSE IF does[r] = "merge" THEN latest[k] ELSE NoRequest]
       ELSE UNCHANGED <<config, latest>>
    /\ blocker' = [b \in Blocker |-> IF resolving[b] = r THEN "resolved" ELSE blocker[b]]
    /\ answer' = [b \in Blocker |-> IF resolving[b] = r THEN r ELSE answer[b]]
    /\ resolving' = [b \in Blocker |-> IF resolving[b] = r THEN NoRequest ELSE resolving[b]]
    /\ shipped' = IF does[r] # "publish" THEN shipped
                  ELSE shipped \union {[version |-> target[r], by |-> r, raced |-> r \in late,
                                        open |-> IsDefinition
                                                 /\ \E b \in Blocker : blocker[b] = "open"]}
    /\ UNCHANGED <<rail, serial, wrote, does, target, needs, staged, patch, told, dead, late>>

Die(r) ==
    /\ step[r] \notin {"new", "done"}
    /\ Cardinality(dead) < MaxDead
    /\ RollBack(r)
    /\ dead' = dead \union {r}
    /\ UNCHANGED told

RailsNext == \E r \in Request :
    \/ StartRequest(r)
    \/ SeedIfFresh(r)
    \/ ReadActive(r)
    \/ CreateDraft(r)
    \/ RefuseDraft(r)
    \/ PassBlockerGate(r)
    \/ PassConfigGate(r)
    \/ ClaimPublish(r)
    \/ RefusePublish(r)
    \/ RaiseBlocker(r)
    \/ ResolveBlocker(r)
    \/ RefuseResolve(r)
    \/ SaveConfig(r)
    \/ Commit(r)
    \/ Die(r)

RailsSpec == RailsInit /\ [][RailsNext]_railsVars

-----------------------------------------------------------------------------
(* Safety. *)

\* Two versions never share a number: what one open transaction has written, no other
\* has, and no committed row holds it in that status.  create_draft's max(version) + 1 is
\* only as good as its lock, and the rulebook takes none.
NumbersDistinct == \A q, r \in Request, v \in Version :
    /\ step[r] = "committing" /\ <<v, "draft">> \in wrote[r]
    => /\ row[v] = "absent"
       /\ q # r /\ step[q] = "committing" => <<v, "draft">> \notin wrote[q]

\* A seeded rail that has any version has a published one, in every transaction's eyes:
\* active_rulebook's scalar_one() and the dropout definition of a fresh install rest on it.
AlwaysLive == IsSeeded =>
    /\ (\E v \in Version : row[v] # "absent") => \E v \in Version : row[v] = "published"
    /\ \A r \in Request : does[r] = "read" /\ step[r] = "committing" => Published(r) # {}

\* The publish gates are read before the publish lock is taken.  What they promise is
\* only this: a definition goes live over an open blocker only when the blocker was raised
\* after the gate had looked.
BlockedPublishIsRaced == \A s \in shipped : s.open => s.raced

\* An engineer told that a blocker is resolved finds that answer recorded, unless the
\* request died before its commit; no later resolver overwrites it.
ResolutionStands == \A r \in told \ dead :
    does[r] = "resolve" /\ step[r] = "done" => \E b \in Blocker : answer[b] = r

\* The stored config is what the committed merges and replaces leave, applied in commit
\* order: no merge writes back a key another one set in between.
NoSettingLost == config = latest

\* A publish that commits makes its version the live one: the live version only grows, and
\* no publish succeeds that silently changes nothing.
PublishedBecomesLive == [][\A v \in Version :
    row'[v] = "published" /\ row[v] # "published"
        => \A w \in Version : row[w] = "published" => w < v]_railsVars
=============================================================================
