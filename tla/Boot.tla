--------------------------------- MODULE Boot ---------------------------------
(***************************************************************************)
(* Kernel.boot: discovery, validation, dependency resolution in passes and *)
(* registration of the installed plugins, for every dependency graph and   *)
(* every way the plugins may be broken.  The order in which a pass comes   *)
(* to its candidates is left open, and so is the order in which a manifest *)
(* names its capabilities.  A capability belongs to whoever claimed it     *)
(* first, and is not given back when the plugin then fails.                *)
(***************************************************************************)
EXTENDS Naturals, FiniteSets

CONSTANTS
    Plugin,    \* the plugin ids that are advertised
    Fault,     \* the faults a plugin may have
    MaxFaulty, \* bound on the plugins that have one
    Capability,
    Provisions, \* what the plugins may provide: functions from plugins to sets
    Core, Nobody, \* owners of a capability that are no plugin
    CoreCapability, \* the capabilities the core has registered before
    MaxBoots   \* bound on the calls of boot() on one kernel

\* unloadable: the entry point cannot be loaded, or resolves to no plugin.
\* conflict: two distributions advertise the id.
\* invalid: the manifest is rejected.
\* unregistrable: registering one of its capabilities raises, for one because
\* the database fails under the capability's default policy.
FaultKind == {"none", "unloadable", "conflict", "invalid", "unregistrable"}

ASSUME FaultAssumption == Fault \subseteq FaultKind
ASSUME BootsAssumption == MaxBoots \in Nat
ASSUME ProvisionsAssumption == Provisions \subseteq [Plugin -> SUBSET Capability]
ASSUME OwnersAssumption == {Core, Nobody} \cap Plugin = {} /\ Core # Nobody

VARIABLES
    fault,     \* fault[p]: what is wrong with p
    requires,  \* requires[p]: manifest.requires_plugins
    provides,  \* provides[p]: manifest.provides_capabilities
    boots,     \* calls of boot() so far
    pc,        \* "idle", or "pass" inside the loop
    state,     \* state[p]: the lifecycle state, "none" before discovery
    listed,    \* the ids in the plugin registry
    booted,    \* Kernel._plugins
    ids,       \* registered_ids
    pending,   \* the candidates this pass has not come to
    deferred,  \* the candidates this pass has put off
    first,     \* first_pass
    progress,  \* made_progress
    providers, \* providers[c]: the capability registry
    owner      \* owner[c]: whose it is to the authorization service

vars == <<fault, requires, provides, boots, pc, state, listed, booted, ids, pending,
          deferred, first, progress, providers, owner>>
static == <<fault, requires, provides>>
claims == <<providers, owner>>

State == {"none", "validated", "registered", "failed"}

TypeOK ==
    /\ fault \in [Plugin -> Fault]
    /\ requires \in [Plugin -> SUBSET Plugin]
    /\ provides \in [Plugin -> SUBSET Capability]
    /\ boots \in 0..MaxBoots
    /\ pc \in {"idle", "pass"}
    /\ state \in [Plugin -> State]
    /\ listed \in SUBSET Plugin
    /\ booted \in SUBSET Plugin
    /\ ids \in SUBSET Plugin
    /\ pending \in SUBSET Plugin
    /\ deferred \in SUBSET Plugin
    /\ first \in BOOLEAN
    /\ progress \in BOOLEAN
    /\ providers \in [Capability -> SUBSET Plugin]
    /\ owner \in [Capability -> Plugin \cup {Core, Nobody}]

\* Whose the capabilities are in a fresh database.
Seeded == [c \in Capability |-> IF c \in CoreCapability THEN Core ELSE Nobody]

Init ==
    /\ fault \in [Plugin -> Fault]
    /\ Cardinality({p \in Plugin : fault[p] # "none"}) <= MaxFaulty
    /\ requires \in [Plugin -> SUBSET Plugin]
    /\ provides \in Provisions
    /\ \A p \in Plugin : fault[p] = "unregistrable" => provides[p] # {}
    /\ boots = 0
    /\ pc = "idle"
    /\ state = [p \in Plugin |-> "none"]
    /\ listed = {} /\ booted = {} /\ ids = {}
    /\ pending = {} /\ deferred = {}
    /\ first = TRUE /\ progress = FALSE
    /\ providers = [c \in Capability |-> {}]
    /\ owner = Seeded

-------------------------------------------------------------------------------
\* discover_plugins returned: a conflicted id is marked failed, the others are
\* the candidates of the first pass.
Discover ==
    /\ pc = "idle"
    /\ boots < MaxBoots
    /\ \A p \in Plugin : fault[p] # "unloadable"
    /\ boots' = boots + 1
    /\ pc' = "pass"
    /\ state' = [p \in Plugin |-> IF fault[p] = "conflict" THEN "failed" ELSE state[p]]
    /\ ids' = listed
    /\ pending' = {p \in Plugin : fault[p] # "conflict"}
    /\ deferred' = {}
    /\ first' = TRUE
    /\ progress' = FALSE
    /\ UNCHANGED <<static, claims, listed, booted>>

\* _resolve raises for one entry point: discover_plugins and boot() raise.
DiscoverRaises ==
    /\ pc = "idle"
    /\ boots < MaxBoots
    /\ \E p \in Plugin : fault[p] = "unloadable"
    /\ boots' = boots + 1
    /\ UNCHANGED <<static, claims, pc, state, listed, booted, ids, pending, deferred, first, progress>>

\* The pass comes to p and puts it in state s.
Take(p, s) ==
    /\ pc = "pass"
    /\ p \in pending
    /\ pending' = pending \ {p}
    /\ state' = [state EXCEPT ![p] = s]
    /\ UNCHANGED <<static, boots, pc, first>>

Rejected(p) == first /\ fault[p] = "invalid"

\* _validate raises, in the first pass only.
Reject(p) ==
    /\ Rejected(p)
    /\ Take(p, "failed")
    /\ UNCHANGED <<claims, listed, booted, ids, deferred, progress>>

\* Slip: a missing dependency is a failure like any other.
DeferNever(p) ==
    /\ ~Rejected(p)
    /\ ~(requires[p] \subseteq ids)
    /\ Take(p, "failed")
    /\ UNCHANGED <<claims, listed, booted, ids, deferred, progress>>

\* _check_dependencies raises: the candidate waits for the next pass.
Defer(p) ==
    /\ ~Rejected(p)
    /\ ~(requires[p] \subseteq ids)
    /\ Take(p, IF first THEN "validated" ELSE state[p])
    /\ deferred' = deferred \cup {p}
    /\ UNCHANGED <<claims, listed, booted, ids, progress>>

\* The capabilities of p that somebody else owns.
Foreign(p) == {c \in provides[p] : owner[c] \notin {p, Nobody}}

\* p is registered as a provider of the capabilities in S, whoever owns them.
Provide(p, S) ==
    providers' = [c \in Capability |-> IF c \in S THEN providers[c] \cup {p} ELSE providers[c]]

\* p is stored as the owner of those in S.
Own(p, S) == owner' = [c \in Capability |-> IF c \in S THEN p ELSE owner[c]]

\* _register gets through: p is listed, registered and available to others.
Registered(p) ==
    /\ Take(p, "registered")
    /\ listed' = listed \cup {p}
    /\ booted' = booted \cup {p}
    /\ ids' = ids \cup {p}
    /\ progress' = TRUE
    /\ Provide(p, provides[p])
    /\ Own(p, provides[p])
    /\ UNCHANGED deferred

Registrable(p) == ~Rejected(p) /\ p \notin listed /\ fault[p] # "unregistrable"

\* Slip: a capability goes to whoever registers it last.
RegisterAnyway(p) ==
    /\ Registrable(p)
    /\ requires[p] \subseteq ids
    /\ Registered(p)

\* _register succeeds.
Register(p) ==
    /\ Registrable(p) /\ Foreign(p) = {}
    /\ requires[p] \subseteq ids
    /\ Registered(p)

\* _register raises at once: the id is listed already.
RegisterAgain(p) ==
    /\ ~Rejected(p)
    /\ requires[p] \subseteq ids
    /\ p \in listed
    /\ Take(p, "failed")
    /\ UNCHANGED <<claims, listed, booted, ids, deferred, progress>>

\* _register raises at capability at, with those in S registered before it: p
\* stays listed and keeps what it claimed.
RaiseAt(p, at, S) ==
    /\ at \in provides[p]
    /\ at \in Foreign(p) \/ fault[p] = "unregistrable"
    /\ Provide(p, S \cup {at})
    /\ Own(p, (S \cup {at}) \ Foreign(p))

RegisterRaises(p) ==
    /\ ~Rejected(p)
    /\ requires[p] \subseteq ids
    /\ p \notin listed
    /\ Take(p, "failed")
    /\ listed' = listed \cup {p}
    /\ \E at \in Capability, S \in SUBSET (provides[p] \ Foreign(p)) : RaiseAt(p, at, S)
    /\ UNCHANGED <<booted, ids, deferred, progress>>

\* Slip: the loop goes on as long as something is deferred.
NextPassAlways ==
    /\ pc = "pass"
    /\ pending = {}
    /\ deferred # {}
    /\ pending' = deferred
    /\ deferred' = {}
    /\ first' = FALSE
    /\ progress' = FALSE
    /\ UNCHANGED <<static, claims, boots, pc, state, listed, booted, ids>>

\* A pass that registered something is followed by one over the deferred.
NextPass ==
    /\ pc = "pass"
    /\ pending = {}
    /\ deferred # {}
    /\ progress
    /\ pending' = deferred
    /\ deferred' = {}
    /\ first' = FALSE
    /\ progress' = FALSE
    /\ UNCHANGED <<static, claims, boots, pc, state, listed, booted, ids>>

\* The last pass: what is still deferred cannot be resolved.
Finish ==
    /\ pc = "pass"
    /\ pending = {}
    /\ deferred = {} \/ ~progress
    /\ pc' = "idle"
    /\ state' = [p \in Plugin |-> IF p \in deferred THEN "failed" ELSE state[p]]
    /\ deferred' = {}
    /\ UNCHANGED <<static, claims, boots, listed, booted, ids, pending, first, progress>>

Step ==
    \/ \E p \in Plugin : Reject(p) \/ Defer(p) \/ Register(p) \/ RegisterAgain(p) \/ RegisterRaises(p)
    \/ NextPass
    \/ Finish

Next == Discover \/ DiscoverRaises \/ Step

Spec == Init /\ [][Next]_vars

\* boot() is one call that runs to its end.
FairSpec == Spec /\ WF_vars(Step)
-------------------------------------------------------------------------------
(* Properties.                                                             *)

Sound(p) == fault[p] = "none"

\* Nobody but p provides, or owns from the start, what p provides.
Uncontested(p) ==
    /\ provides[p] \cap CoreCapability = {}
    /\ \A q \in Plugin : q # p => provides[p] \cap provides[q] = {}

\* S holds every sound plugin of P whose requirements it holds.
Closed(S, P) == \A p \in P : Sound(p) /\ requires[p] \subseteq S => p \in S
Least(P) == {p \in Plugin : \A S \in SUBSET Plugin : Closed(S, P) => p \in S}

\* The plugins that can be brought up at all: the least closed set; and those
\* that can whatever else is installed.
Resolvable == Least({p \in Plugin : provides[p] \cap CoreCapability = {}})
Assured == Least({p \in Plugin : Uncontested(p)})

Done == boots = 1 /\ pc = "idle"
Loadable == \A p \in Plugin : fault[p] # "unloadable"

\* One boot registers only plugins that can be brought up, and all of them that
\* nobody contests, in whatever order they are discovered and however the others
\* are broken: exactly these, when no two plugins provide one capability.
RegistersResolvable ==
    Done /\ Loadable => LET up == {p \in Plugin : state[p] = "registered"}
                        IN  Assured \subseteq up /\ up \subseteq Resolvable

\* A plugin that is sound fails only for want of a requirement, or of a
\* capability that another one owns (which may have failed itself).
FailsForCause ==
    Done /\ Loadable => \A p \in Plugin : Sound(p) /\ state[p] # "registered" =>
        \/ \E q \in requires[p] : state[q] # "registered"
        \/ Foreign(p) # {}

\* Whatever is registered or fails later, and however often boot() is called, a
\* plugin that came up is the owner of every capability it provides.
CapabilitiesOwned ==
    \A p \in booted : \A c \in provides[p] : owner[c] = p /\ p \in providers[c]

\* The plugins a registered plugin requires are registered, at every moment.
RequirementsRegistered ==
    boots <= 1 =>
        \A p \in Plugin : state[p] = "registered" =>
            \A q \in requires[p] : state[q] = "registered"

\* boot() ends for every dependency graph, cycles included.
BootEnds == pc = "pass" ~> pc = "idle"

\* docs/CORE_CONSTITUTION.md: any failure during discovery marks the plugin
\* failed and the boot continues; so after a boot every plugin is one or the
\* other.
EveryPluginSettled ==
    Done => \A p \in Plugin : state[p] \in {"registered", "failed"}

-------------------------------------------------------------------------------
(* The inductive invariant behind these properties.                        *)

InOrder ==
    /\ boots = 0 => /\ pc = "idle" /\ listed = {} /\ ids = {}
                    /\ \A p \in Plugin : state[p] = "none"
    /\ pc = "pass" => Loadable /\ boots > 0

\* What is registered can be brought up, and is what requirements are checked
\* against.
OnlyResolvable ==
    boots <= 1 =>
        /\ ids = {p \in Plugin : state[p] = "registered"}
        /\ ids \subseteq listed
        /\ ids \subseteq Resolvable

Blocked(p) == requires[p] \subseteq ids /\ Foreign(p) # {}

\* A sound plugin is registered, or still to be tried, or was refused a capability.
NothingForgotten ==
    boots = 1 /\ pc = "pass" => \A p \in Plugin :
        /\ p \in pending => p \notin deferred
        /\ p \in pending \cup deferred => p \notin listed /\ fault[p] # "conflict"
        /\ fault[p] = "invalid" => p \notin deferred /\ (first \/ p \notin pending)
        /\ Sound(p) => p \in ids \cup pending \cup deferred \/ Blocked(p)
        /\ p \in deferred /\ ~progress => ~(requires[p] \subseteq ids)

\* What is owned was claimed by a plugin that provides it and is listed.
ClaimsInOrder ==
    /\ booted \subseteq listed
    /\ \A c \in Capability :
          /\ owner[c] \in Plugin => c \in provides[owner[c]] /\ owner[c] \in listed \cap providers[c]
          /\ owner[c] = Core <=> c \in CoreCapability

BInv ==
    /\ TypeOK /\ InOrder /\ OnlyResolvable /\ NothingForgotten /\ ClaimsInOrder
    /\ RegistersResolvable /\ FailsForCause /\ CapabilitiesOwned /\ RequirementsRegistered
===============================================================================
