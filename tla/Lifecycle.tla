------------------------------ MODULE Lifecycle -------------------------------
(***************************************************************************)
(* Kernel.enable, disable, stop and enable_all for the plugins a boot has  *)
(* registered: the live instance, the bound contracts, the transaction     *)
(* owner and the event subscriptions of each, when any hook of a plugin    *)
(* may raise.  The kernel is driven by one thread, and a hook runs between *)
(* two of its steps; initialize is only called by enable.                  *)
(***************************************************************************)
EXTENDS Naturals

CONSTANTS
    Managed,      \* the plugins in Kernel._plugins
    None,         \* no plugin
    MaxInstances  \* bound on the instances of one plugin

ASSUME NoneAssumption == None \notin Managed
ASSUME InstancesAssumption == MaxInstances \in Nat \ {0}

VARIABLES
    life,    \* life[p]: the lifecycle state in the plugin registry
    made,    \* made[p]: instances of p so far
    inst,    \* inst[p]: the number of the one in Kernel._instances, or 0
    bound,   \* bound[p]: the instance whose contracts are bound, or 0
    owned,   \* owned[p]: a transaction owner is registered for p
    subs,    \* subs[p]: the instances whose handlers are subscribed
    busy,    \* the plugin enable() works on
    stage,   \* the hook enable() has come to
    all,     \* enable_all: "off", "on", "done"
    todo,    \* the plugins enable_all has not come to
    torn,    \* history: on_disable has raised since they were last enabled
    leaked   \* history: leaked[p]: the instances that bind_subscriptions, raising
             \* when they were enabled again, has left subscribed

history == <<torn, leaked>>
lifecycleVars == <<life, made, inst, bound, owned, subs, busy, stage, all, todo, torn, leaked>>

Up == {"enabled", "running"}
LifeState == {"registered", "initialized", "disabled", "stopped", "failed"} \cup Up
Instance == 1..MaxInstances

LifecycleTypeOK ==
    /\ life \in [Managed -> LifeState]
    /\ made \in [Managed -> 0..MaxInstances]
    /\ inst \in [Managed -> 0..MaxInstances]
    /\ bound \in [Managed -> 0..MaxInstances]
    /\ owned \in [Managed -> BOOLEAN]
    /\ subs \in [Managed -> SUBSET Instance]
    /\ busy \in Managed \cup {None}
    /\ stage \in {"idle", "initialize", "subscribe", "bind", "on_enable"}
    /\ all \in {"off", "on", "done"}
    /\ todo \in SUBSET Managed
    /\ torn \in SUBSET Managed
    /\ leaked \in [Managed -> SUBSET Instance]

LifecycleInit ==
    /\ life = [p \in Managed |-> "registered"]
    /\ made = [p \in Managed |-> 0]
    /\ inst = [p \in Managed |-> 0]
    /\ bound = [p \in Managed |-> 0]
    /\ owned = [p \in Managed |-> FALSE]
    /\ subs = [p \in Managed |-> {}]
    /\ busy = None /\ stage = "idle"
    /\ all = "off" /\ todo = {}
    /\ torn = {} /\ leaked = [p \in Managed |-> {}]

Mark(p, s) == life' = [life EXCEPT ![p] = s]

\* InMemoryContractRegistry.unbind: the bindings and the transaction owner go.
Unbind(p) ==
    /\ bound' = [bound EXCEPT ![p] = 0]
    /\ owned' = [owned EXCEPT ![p] = FALSE]

\* dispatcher._remove for the handlers of the live instance.
Unsubscribe(p) ==
    /\ subs' = [subs EXCEPT ![p] = @ \ {inst[p]}]
    /\ leaked' = [leaked EXCEPT ![p] = @ \ {inst[p]}]

At(p, s) == busy = p /\ stage = s
GoTo(s) == stage' = s /\ UNCHANGED <<busy, all, todo>>

\* A call on one plugin from outside enable_all.
Called == busy = None /\ all # "on"
CallEnds == all' = "off" /\ UNCHANGED <<busy, stage, todo>>

-------------------------------------------------------------------------------
(* enable                                                                  *)

\* enable(p), called by itself or by enable_all.
BeginEnable(p) ==
    /\ \/ Called /\ all' = "off" /\ todo' = todo
       \/ /\ busy = None /\ all = "on" /\ p \in todo /\ life[p] # "failed"
          /\ todo' = todo \ {p} /\ all' = all
    /\ busy' = p
    /\ stage' = IF inst[p] = 0 THEN "initialize" ELSE "subscribe"
    /\ UNCHANGED <<life, made, inst, bound, owned, subs, history>>

\* Slip: the first failure ends enable_all.
EnableFailureEndsAll(p) ==
    /\ Mark(p, "failed")
    /\ busy' = None /\ stage' = "idle"
    /\ todo' = {}
    /\ UNCHANGED all

\* enable raises: enable_all goes on to the next plugin, unless what was raised
\* is a cancellation, which passes through it.
EnableFails(p) ==
    /\ Mark(p, "failed")
    /\ busy' = None /\ stage' = "idle"
    /\ \/ UNCHANGED <<all, todo>>
       \/ all' = "off" /\ todo' = {}

\* Slip: only the bindings are undone.
CleanupKeepsSubscriptions(p) == Unbind(p) /\ UNCHANGED <<subs, leaked>>

\* _cleanup_enable with the subscriptions the plugin returned.
CleanupEnable(p) == Unbind(p) /\ Unsubscribe(p)

Initialize(p) ==
    /\ At(p, "initialize")
    /\ made' = [made EXCEPT ![p] = @ + 1]
    /\ inst' = [inst EXCEPT ![p] = made[p] + 1]
    /\ Mark(p, "initialized")
    /\ GoTo("subscribe")
    /\ UNCHANGED <<bound, owned, subs, history>>

\* The instance is dropped, and its owner.
InitializeRaises(p) ==
    /\ At(p, "initialize")
    /\ owned' = [owned EXCEPT ![p] = FALSE]
    /\ EnableFails(p)
    /\ UNCHANGED <<made, inst, bound, subs, history>>

\* Registering a handler that is registered already does nothing.
Subscribe(p) ==
    /\ At(p, "subscribe")
    /\ subs' = [subs EXCEPT ![p] = @ \cup {inst[p]}]
    /\ leaked' = [leaked EXCEPT ![p] = @ \ {inst[p]}]
    /\ GoTo("bind")
    /\ UNCHANGED <<life, made, inst, bound, owned, torn>>

\* bind_subscriptions raises: the cleanup is given no subscriptions.
SubscribeRaises(p) ==
    /\ At(p, "subscribe")
    /\ Unbind(p)
    /\ EnableFails(p)
    /\ leaked' = [leaked EXCEPT ![p] = @ \cup ({inst[p]} \cap subs[p])]
    /\ UNCHANGED <<made, inst, subs, torn>>

Bind(p) ==
    /\ At(p, "bind")
    /\ bound' = [bound EXCEPT ![p] = inst[p]]
    /\ GoTo("on_enable")
    /\ UNCHANGED <<life, made, inst, owned, subs, history>>

\* bind_contracts raises, some contracts bound or none.
BindRaises(p) ==
    /\ At(p, "bind")
    /\ CleanupEnable(p)
    /\ EnableFails(p)
    /\ UNCHANGED <<made, inst, torn>>

\* The transaction owner is registered, on_enable returns, and enable_all marks
\* the plugin running.
OnEnable(p) ==
    /\ At(p, "on_enable")
    /\ owned' = [owned EXCEPT ![p] = TRUE]
    /\ Mark(p, IF all = "on" THEN "running" ELSE "enabled")
    /\ busy' = None /\ stage' = "idle"
    /\ torn' = torn \ {p}
    /\ UNCHANGED <<made, inst, bound, subs, all, todo, leaked>>

OnEnableRaises(p) ==
    /\ At(p, "on_enable")
    /\ CleanupEnable(p)
    /\ EnableFails(p)
    /\ UNCHANGED <<made, inst, torn>>

-------------------------------------------------------------------------------
(* disable, stop, enable_all                                               *)

\* disable(p): torn down first, then on_disable.  Nothing asks for the state.
Disable(p) ==
    /\ Called
    /\ CleanupEnable(p)
    /\ \/ Mark(p, "disabled") /\ UNCHANGED torn
       \/ inst[p] # 0 /\ torn' = torn \cup {p} /\ UNCHANGED life
    /\ CallEnds
    /\ UNCHANGED <<made, inst>>

\* Slip: what is up is stopped like anything else.
StopUpUnbinds(p) ==
    /\ Called /\ life[p] \in Up /\ made[p] < MaxInstances
    /\ Unbind(p)
    /\ inst' = [inst EXCEPT ![p] = 0]
    /\ Mark(p, "stopped") \/ Mark(p, "disabled")
    /\ CallEnds
    /\ UNCHANGED <<made, subs, history>>

\* stop(p) of a plugin that is up: disable, then shutdown, which may raise.
StopUp(p) ==
    /\ Called /\ life[p] \in Up /\ made[p] < MaxInstances
    /\ CleanupEnable(p)
    /\ inst' = [inst EXCEPT ![p] = 0]
    /\ Mark(p, "stopped") \/ Mark(p, "disabled")
    /\ CallEnds
    /\ UNCHANGED <<made, torn>>

\* stop(p) of any other plugin.
StopDown(p) ==
    /\ Called /\ life[p] \notin Up /\ made[p] < MaxInstances
    /\ Unbind(p)
    /\ inst' = [inst EXCEPT ![p] = 0]
    /\ Mark(p, "stopped") \/ (inst[p] # 0 /\ UNCHANGED life)
    /\ CallEnds
    /\ UNCHANGED <<made, subs, history>>

EnableAll ==
    /\ Called
    /\ all' = "on" /\ todo' = Managed
    /\ UNCHANGED <<life, made, inst, bound, owned, subs, busy, stage, history>>

\* enable_all skips a failed plugin.
Skip(p) ==
    /\ busy = None /\ all = "on" /\ p \in todo
    /\ life[p] = "failed"
    /\ todo' = todo \ {p}
    /\ UNCHANGED <<life, made, inst, bound, owned, subs, busy, stage, all, history>>

EnableAllReturns ==
    /\ busy = None /\ all = "on" /\ todo = {}
    /\ all' = "done"
    /\ UNCHANGED <<life, made, inst, bound, owned, subs, busy, stage, todo, history>>

\* The steps of enable() after its beginning.
EnableStep(p) ==
    \/ Initialize(p) \/ InitializeRaises(p)
    \/ Subscribe(p) \/ SubscribeRaises(p)
    \/ Bind(p) \/ BindRaises(p)
    \/ OnEnable(p) \/ OnEnableRaises(p)

LifecycleNext ==
    \/ \E p \in Managed : \/ BeginEnable(p) \/ EnableStep(p)
                         \/ Disable(p) \/ StopUp(p) \/ StopDown(p)
                         \/ Skip(p)
    \/ EnableAll
    \/ EnableAllReturns

LifecycleSpec == LifecycleInit /\ [][LifecycleNext]_lifecycleVars
-------------------------------------------------------------------------------
(* Properties.                                                             *)

Settled(p) == busy # p

\* The contracts of a plugin that is not up cannot be called.
DownUncallable ==
    \A p \in Managed : Settled(p) /\ life[p] \notin Up => bound[p] = 0

\* A contract that can be called is that of the live instance, and a
\* transaction owner commits or rolls back what it does; none is kept otherwise.
CallableOwned ==
    \A p \in Managed : Settled(p) => /\ bound[p] \in {0, inst[p]}
                                    /\ owned[p] <=> bound[p] # 0

Serves(p) == inst[p] # 0 /\ bound[p] = inst[p] /\ subs[p] = {inst[p]} \cup leaked[p]
Silent(p) == bound[p] = 0 /\ subs[p] \subseteq leaked[p]

\* docs/PLUGIN_SPEC.md: ENABLED has its contracts bound, its subscriptions active.
\* So it is, of one live instance; after an on_disable that raised nothing is
\* left of it, although it reads enabled; in between there is nothing.  No other
\* handler is subscribed than those an earlier bind_subscriptions left behind.
UpServes ==
    \A p \in Managed : Settled(p) /\ life[p] \in Up =>
        IF p \in torn THEN Silent(p) ELSE Serves(p)

\* docs/EVENT_SPEC.md: unsubscribed by disable and on an enable failure.  What is
\* left nevertheless is of instances whose bind_subscriptions raised when they
\* were enabled again, and which no cleanup has found since.
DownSilent ==
    \A p \in Managed : Settled(p) /\ life[p] \notin Up => subs[p] \subseteq leaked[p]

\* When enable_all returns every plugin is up or failed: one that is broken
\* keeps no other from coming up.
EnableAllSettles ==
    all = "done" => \A p \in Managed : life[p] \in {"running", "failed"}

-------------------------------------------------------------------------------
(* The inductive invariant.                                                *)

\* The instances are numbered, and what enable() has come to tells what it has
\* done already.
Numbered == \A p \in Managed : inst[p] <= made[p] /\ (inst[p] = 0 => made[p] < MaxInstances)

Enabling ==
    /\ (busy = None) <=> (stage = "idle")
    /\ \A p \in Managed : busy = p =>
        /\ (inst[p] = 0) <=> (stage = "initialize")
        /\ stage = "initialize" => bound[p] = 0
        /\ stage \in {"subscribe", "bind"} => bound[p] \in {0, inst[p]}
        /\ stage = "on_enable" => bound[p] = inst[p]
        /\ stage \in {"bind", "on_enable"} => inst[p] \in subs[p]

\* Only the live instance is ever subscribed, and those left behind.
Subscribed ==
    \A p \in Managed : leaked[p] \subseteq subs[p] /\ subs[p] \subseteq {inst[p]} \cup leaked[p]

LInv ==
    /\ LifecycleTypeOK /\ Numbered /\ Enabling
    /\ DownUncallable /\ CallableOwned
    /\ Subscribed /\ DownSilent /\ UpServes
===============================================================================
