-------------------------- MODULE PluginLifecycle --------------------------
(***************************************************************************)
(* The plugin manager of a runtime (kernel/manager.py) with its service    *)
(* registry and the subscriptions of its event bus.                        *)
(*                                                                         *)
(* start_all and stop_all are coroutines: each call of a plugin's setup,   *)
(* start or stop is a step, and may raise.  Between two steps the task that *)
(* runs them may be cancelled.  Whatever stop and teardown raise is logged  *)
(* and swallowed, so one step stands for both of a plugin.                 *)
(***************************************************************************)
EXTENDS PluginOrder

CONSTANTS
    Plugins,        \* plugins that may be registered, numbered by their ids
    Services,       \* service names
    Provides, Requires, Optional,   \* their metadata: plugin -> services
    TryGets,        \* the services a plugin's setup looks up with try_get
    Subscribers,    \* the plugins that subscribe to the bus in setup
    Faults,         \* the hooks that may raise, of "setup" and "start"
    MaxCancels,     \* a bound: how often the task is cancelled
    NoPlugin        \* nobody

Metadata == [Plugins -> SUBSET Services]

ASSUME PluginsAssumption == Plugins \subseteq Nat /\ IsFiniteSet(Plugins)
ASSUME MetadataAssumption ==
    /\ Provides \in Metadata /\ Requires \in Metadata
    /\ Optional \in Metadata /\ TryGets \in Metadata
    /\ Subscribers \subseteq Plugins
ASSUME NoPluginAssumption == NoPlugin \notin Plugins
ASSUME MaxCancelsAssumption == MaxCancels \in Nat

VARIABLES
    plugins,    \* _plugins: the registered plugins, in order of registration
    providers,  \* _service_providers: service -> plugin
    registry,   \* ServiceRegistry: service -> owner
    cleanups,   \* plugins whose unsubscriber the manager keeps
    handlers,   \* plugin -> its handlers on the bus
    ordered,    \* _ordered_ids
    started,    \* _started
    op,         \* the loop the manager is in
    order,      \* the plugins that loop goes through
    at,         \* how many of them it is at, from the front
    life,       \* plugin -> what it has been through since its last setup
    bound,      \* plugin -> services its setup looked up and found
    cancels     \* how often the task has been cancelled

vars == <<plugins, providers, registry, cleanups, handlers, ordered, started,
          op, order, at, life, bound, cancels>>
callVars == <<op, order, at>>
managerVars == <<plugins, providers, ordered, started>>

Ops == {"idle", "setup", "undoSetup", "start", "undoStart", "stop"}

TypeOK ==
    /\ plugins \in Seq(Plugins)
    /\ providers \in [Services -> Plugins \cup {NoPlugin}]
    /\ registry \in [Services -> Plugins \cup {NoPlugin}]
    /\ cleanups \subseteq Plugins
    /\ handlers \in [Plugins -> Nat]
    /\ ordered \in Seq(Plugins)
    /\ started \in BOOLEAN
    /\ op \in Ops
    /\ order \in Seq(Plugins)
    /\ at \in Nat
    /\ life \in [Plugins -> {"down", "up", "stopped"}]
    /\ bound \in [Plugins -> SUBSET Services]
    /\ cancels \in 0 .. MaxCancels

Init ==
    /\ plugins = <<>>
    /\ providers = [s \in Services |-> NoPlugin]
    /\ registry = [s \in Services |-> NoPlugin]
    /\ cleanups = {}
    /\ handlers = [p \in Plugins |-> 0]
    /\ ordered = <<>>
    /\ started = FALSE
    /\ op = "idle"
    /\ order = <<>>
    /\ at = 0
    /\ life = [p \in Plugins |-> "down"]
    /\ bound = [p \in Plugins |-> {}]
    /\ cancels = 0

-----------------------------------------------------------------------------
Registered == Elements(plugins)

\* Mutants: the optional edges left out; a plugin's services left in the
\* registry; an unsubscriber called for every plugin; a handler left on the bus;
\* a rollback that leaves out the plugin that failed; a stop in the order of
\* setup.
NoOptional(prov) == [p \in Registered |-> {}]
KeepsServices(p) == UNCHANGED registry
AlwaysUnsubscribes(p) ==
    /\ handlers' = [handlers EXCEPT ![p] = @ - 1]
    /\ cleanups' = cleanups \ {p}
KeepsHandler(p) == handlers' = handlers /\ cleanups' = cleanups \ {p}
SkipsFailed == at - 1
FromTheFront(k) == order[Len(order) + 1 - k]

\* service -> provider, from the metadata of the registered plugins; the one
\* registered last has the name.
ProvidersNow ==
    [s \in Services |->
        LET who == {i \in DOMAIN plugins : s \in Provides[plugins[i]]}
        IN  IF who = {} THEN NoPlugin
            ELSE plugins[CHOOSE i \in who : \A j \in who : j <= i]]

\* The providers of the services m names, other than the plugin itself.
DependsOn(m, prov) ==
    [p \in Registered |-> {prov[s] : s \in m[p]} \ {p, NoPlugin}]

DependencyGraph(prov) == DependsOn(Requires, prov)
OptionalGraph(prov) == DependsOn(Optional, prov)
OrderingGraph(prov) ==
    [p \in Registered |-> DependencyGraph(prov)[p] \cup OptionalGraph(prov)[p]]

\* resolve_order: the optional edges are dropped when they close a cycle; no
\* order when a required service has no provider, or on a cycle without them.
ResolvedOrders(prov) ==
    IF \E p \in Registered : \E s \in Requires[p] : prov[s] = NoPlugin THEN {}
    ELSE IF Orders(OrderingGraph(prov)) # {} THEN Orders(OrderingGraph(prov))
    ELSE Orders(DependencyGraph(prov))

\* clear_owner.
ClearOwner(p) ==
    registry' = [s \in Services |-> IF registry[s] = p THEN NoPlugin ELSE registry[s]]

\* Popping and calling the unsubscribers of p.
Unsubscribe(p) ==
    /\ handlers' = [handlers EXCEPT ![p] = IF p \in cleanups THEN @ - 1 ELSE @]
    /\ cleanups' = cleanups \ {p}

\* The rollback of a failed setup starts with the plugin that failed.
LastInitialized == at

\* The plugin that stop_all comes to, going backwards.
Backwards(k) == order[k]

\* stop() and teardown(), and what the manager releases for the plugin.
TakeDown(p) ==
    /\ life' = [life EXCEPT ![p] = "down"]
    /\ bound' = [bound EXCEPT ![p] = {}]
    /\ ClearOwner(p)
    /\ Unsubscribe(p)

\* A loop is over: the call returns or raises.
Return == op' = "idle" /\ order' = <<>> /\ at' = 0

Enter(loop, s, k) == op' = loop /\ order' = s /\ at' = k

-----------------------------------------------------------------------------
(* register: refused for a known id or a service that has a provider.       *)
Register(p) ==
    /\ op = "idle"
    /\ p \notin Registered
    /\ \A s \in Provides[p] : providers[s] = NoPlugin
    /\ plugins' = Append(plugins, p)
    /\ providers' = [s \in Services |-> IF s \in Provides[p] THEN p ELSE providers[s]]
    /\ UNCHANGED <<cancels, registry, cleanups, handlers, ordered, started, callVars, life, bound>>

(* start_all, as far as the first await: setup_all rebuilds the providers   *)
(* and resolves the order before it touches a plugin.                       *)
CallStart ==
    /\ op = "idle" /\ ~started
    /\ Registered # {}
    /\ \/ /\ ordered = <<>>
          /\ providers' = ProvidersNow
          /\ \/ \E s \in ResolvedOrders(providers') : Enter("setup", s, 1)
             \/ ResolvedOrders(providers') = {} /\ UNCHANGED callVars
       \/ /\ ordered # <<>>
          /\ Enter("start", ordered, 1)
          /\ UNCHANGED providers
    /\ UNCHANGED <<cancels, plugins, registry, cleanups, handlers, ordered, started, life, bound>>

\* What p finds when its setup looks services up.
CannotSetUp(p) ==
    \/ \E s \in Requires[p] : registry[s] = NoPlugin
    \/ \E s \in Provides[p] : registry[s] # NoPlugin

\* The handler's unsubscriber goes to a list the manager has made its own
\* before the call, in place of the one it may have had.
Subscribe(p, subscribes) ==
    /\ handlers' = [handlers EXCEPT ![p] = IF subscribes THEN @ + 1 ELSE @]
    /\ cleanups' = IF subscribes THEN cleanups \cup {p} ELSE cleanups \ {p}

SetUp(p) ==
    /\ op = "setup" /\ at \in DOMAIN order /\ p = order[at]
    /\ ~CannotSetUp(p)
    /\ registry' = [s \in Services |-> IF s \in Provides[p] THEN p ELSE registry[s]]
    /\ Subscribe(p, p \in Subscribers)
    /\ bound' = [bound EXCEPT ![p] = {s \in Requires[p] \cup TryGets[p] :
                                         registry[s] # NoPlugin}]
    /\ life' = [life EXCEPT ![p] = "up"]
    /\ at' = at + 1
    /\ UNCHANGED <<cancels, managerVars, op, order>>

(* setup raises, by itself or because of the registry, when some of its     *)
(* services and its handler may be there already.                           *)
SetUpFails(p) ==
    /\ op = "setup" /\ at \in DOMAIN order /\ p = order[at]
    /\ CannotSetUp(p) \/ "setup" \in Faults
    /\ \E done \in SUBSET {s \in Provides[p] : registry[s] = NoPlugin} :
          registry' = [s \in Services |-> IF s \in done THEN p ELSE registry[s]]
    /\ \E subscribes \in {(p \in Subscribers), FALSE} : Subscribe(p, subscribes)
    /\ life' = [life EXCEPT ![p] = "up"]
    /\ op' = "undoSetup" /\ at' = LastInitialized
    /\ UNCHANGED <<cancels, managerVars, order, bound>>

UndoSetUp(p) ==
    /\ op = "undoSetup" /\ at \in DOMAIN order /\ p = order[at]
    /\ TakeDown(p)
    /\ at' = at - 1
    /\ UNCHANGED <<cancels, managerVars, op, order>>

SetUpUndone ==
    /\ op = "undoSetup" /\ at = 0
    /\ ordered' = <<>>
    /\ Return
    /\ UNCHANGED <<cancels, plugins, providers, started, registry, cleanups, handlers, life, bound>>

\* Every plugin is set up; start_all goes on to start them.
SetUpDone ==
    /\ op = "setup" /\ at = Len(order) + 1
    /\ ordered' = order
    /\ Enter("start", order, 1)
    /\ UNCHANGED <<cancels, plugins, providers, started, registry, cleanups, handlers, life, bound>>

Start ==
    /\ op = "start" /\ at \in DOMAIN order
    /\ at' = at + 1
    /\ UNCHANGED <<cancels, managerVars, registry, cleanups, handlers, op, order, life, bound>>

StartDone ==
    /\ op = "start" /\ at = Len(order) + 1
    /\ started' = TRUE
    /\ Return
    /\ UNCHANGED <<cancels, plugins, providers, ordered, registry, cleanups, handlers, life, bound>>

\* The plugins started before are stopped, then stop_all runs.
StartFails ==
    /\ op = "start" /\ at \in DOMAIN order
    /\ "start" \in Faults
    /\ op' = "undoStart" /\ at' = at - 1
    /\ UNCHANGED <<cancels, managerVars, registry, cleanups, handlers, order, life, bound>>

UndoStart(p) ==
    /\ op = "undoStart" /\ at \in DOMAIN order /\ p = order[at]
    /\ life' = [life EXCEPT ![p] = "stopped"]
    /\ at' = at - 1
    /\ UNCHANGED <<cancels, managerVars, registry, cleanups, handlers, op, order, bound>>

StartUndone ==
    /\ op = "undoStart" /\ at = 0
    /\ Enter("stop", order, Len(order))
    /\ UNCHANGED <<cancels, managerVars, registry, cleanups, handlers, life, bound>>

\* stop_all, which does nothing when nothing was set up.
CallStop ==
    /\ op = "idle" /\ ordered # <<>>
    /\ Enter("stop", ordered, Len(ordered))
    /\ UNCHANGED <<cancels, managerVars, registry, cleanups, handlers, life, bound>>

Stop(p) ==
    /\ op = "stop" /\ at \in DOMAIN order /\ p = Backwards(at)
    /\ TakeDown(p)
    /\ at' = at - 1
    /\ UNCHANGED <<cancels, managerVars, op, order>>

\* The providers are released, so that others may be registered.
StopDone ==
    /\ op = "stop" /\ at = 0
    /\ providers' = [s \in Services |-> NoPlugin]
    /\ started' = FALSE
    /\ ordered' = <<>>
    /\ Return
    /\ UNCHANGED <<cancels, plugins, registry, cleanups, handlers, life, bound>>

(* asyncio.CancelledError is no Exception: no handler of the manager runs.  *)
Cancel ==
    /\ op # "idle" /\ cancels < MaxCancels
    /\ cancels' = cancels + 1
    /\ Return
    /\ UNCHANGED <<managerVars, registry, cleanups, handlers, life, bound>>

Step ==
    \/ \E p \in Plugins : \/ SetUp(p) \/ SetUpFails(p) \/ UndoSetUp(p)
                          \/ UndoStart(p) \/ Stop(p)
    \/ SetUpUndone \/ SetUpDone \/ Start \/ StartDone \/ StartFails
    \/ StartUndone \/ StopDone

Next == (\E p \in Plugins : Register(p)) \/ CallStart \/ CallStop \/ Cancel \/ Step

Spec == Init /\ [][Next]_vars

-----------------------------------------------------------------------------
Clean(p) ==
    /\ life[p] = "down" /\ handlers[p] = 0 /\ p \notin cleanups
    /\ \A s \in Services : registry[s] # p

\* No call has been cancelled: the manager gives no promise for one that was.
Undisturbed == cancels = 0

(* After a failed start and after a stop nothing is left of any plugin: no  *)
(* service, no handler on the bus, no setup without its stop and teardown,  *)
(* whichever hook failed and how far it had come.                           *)
RestIsClean ==
    Undisturbed /\ op = "idle" /\ ordered = <<>> => \A p \in Plugins : Clean(p)

(* A running plugin never holds a service that has been taken down: every   *)
(* service its setup found, required or by try_get, is still registered.    *)
NoStaleBinding ==
    \A p \in Plugins : Undisturbed /\ life[p] = "up" =>
        \A s \in bound[p] : registry[s] # NoPlugin

\* No two registered plugins provide one service.  Two may after a stop_all,
\* which forgets the providers that register checks.
NoRivals == \A p, q \in Registered : p # q => Provides[p] \cap Provides[q] = {}

(* The registry never makes a setup fail: what a plugin requires is there   *)
(* when its turn comes and the names it provides are free, in the first     *)
(* start and in every start after a failure or a stop.                      *)
SetUpNeverBlocked ==
    Undisturbed /\ NoRivals /\ op = "setup" /\ at \in DOMAIN order =>
        ~CannotSetUp(order[at])

(* A started runtime is whole: each plugin of the order is up, owns what it *)
(* provides, and listens if it subscribed.                                  *)
StartedIsWhole ==
    Undisturbed /\ started /\ op = "idle" =>
        \A p \in Elements(ordered) :
            /\ life[p] = "up"
            /\ \A s \in Provides[p] : registry[s] = p
            /\ handlers[p] = IF p \in Subscribers THEN 1 ELSE 0

(* A plugin that declares an optional service finds it, if a plugin of the  *)
(* composition provides it and the optional edges close no cycle.           *)
DeclaredOptionalsBound ==
    \A p \in Elements(ordered) :
        /\ Undisturbed /\ started /\ op = "idle" /\ Registered = Elements(ordered)
        /\ Orders(OrderingGraph(ProvidersNow)) # {}
        => \A s \in Optional[p] \cap TryGets[p] :
              ProvidersNow[s] # NoPlugin => s \in bound[p]

\* q needs a service of p.
Needs(q, p) == p # q /\ \E s \in bound[q] : registry[s] = p

\* p is taken down and a plugin that uses one of its services is still up.
PulledAway(p) ==
    /\ life[p] = "up" /\ life'[p] # "up"
    /\ \E q \in Plugins : life[q] = "up" /\ Needs(q, p)

(* Dependents stop first when stop_all or the rollback of a failed setup    *)
(* takes plugins down, whatever had come up by then.                        *)
DependentsStopFirst ==
    [][Undisturbed /\ op # "undoStart" => \A p \in Plugins : ~PulledAway(p)]_vars

(* A stop that runs to its end recovers the runtime: no plugin is left up   *)
(* and no service is left registered, even after starts and stops that were *)
(* cancelled at any of their awaits.                                        *)
StopClears ==
    [][op = "stop" /\ ordered' = <<>> =>
          \A p \in Plugins : /\ life'[p] = "down"
                             /\ \A s \in Services : registry'[s] # p]_vars

(* A service that a setup looks up with try_get is found when a plugin of   *)
(* the composition provides it.                                             *)
TryGetFinds ==
    \A p \in Elements(ordered) :
        started /\ op = "idle" =>
            \A s \in TryGets[p] :
                (\E q \in Elements(ordered) : s \in Provides[q]) => s \in bound[p]

(* What starts and stops leave behind: a runtime at rest is clean, no plugin *)
(* that is up holds a service that was taken down, and the registry is in    *)
(* the way of no later setup.                                                *)
NothingLeftBehind == RestIsClean /\ NoStaleBinding /\ SetUpNeverBlocked

(* What a start brings up: every plugin of the order with its services and   *)
(* handlers, and the optional services it declared.                          *)
StartedWithAll == StartedIsWhole /\ DeclaredOptionalsBound

(* How plugins come down: dependents first, and all of them when a stop ends. *)
StoppedInOrder == DependentsStopFirst /\ StopClears
=============================================================================
