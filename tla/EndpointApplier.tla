-------------------------- MODULE EndpointApplier --------------------------
(***************************************************************************)
(* The configuration of the broker and its reload: main() and hup_handler  *)
(* of core/src/main.cc, config::applier::state and                         *)
(* config::applier::endpoint.  The new endpoints are compared with the     *)
(* running ones, those that are gone or changed are stopped, the new ones  *)
(* are created.  If anything throws on SIGHUP, the configuration that was  *)
(* in force is applied again in the same way.                              *)
(*                                                                         *)
(* A configuration is [valid, settings, endpoints]: valid is FALSE if an   *)
(* early check of state::apply throws, settings stands for the values it   *)
(* copies, endpoints is a list of [name, params, failovers, kind], where   *)
(* kind is "acceptor", "connector", or "bad" if no protocol matches.       *)
(* Names are distinct in a list, which the parser does not check, so the   *)
(* lists that _diff_endpoints cuts from it hold places of target.endpoints.*)
(***************************************************************************)
EXTENDS Naturals, Sequences, FiniteSets, SequencesExt

CONSTANTS
    Configurations,     \* what the file may hold
    MaxReloads,         \* bound: SIGHUPs
    MaxFailures         \* bound: creations that fail for want of resources

ASSUME ApplierAssumption ==
    /\ {MaxReloads, MaxFailures} \subseteq Nat
    /\ \A c \in Configurations :
          /\ DOMAIN c.endpoints \subseteq Nat
          /\ \A i \in DOMAIN c.endpoints : c.endpoints[i].failovers \in Seq(STRING)
          /\ \A i, j \in DOMAIN c.endpoints :
                c.endpoints[i].name = c.endpoints[j].name => i = j

VARIABLES
    apc,            \* where the main thread is
    glState,        \* gl_state: the configuration in force, or NoState
    target,         \* the configuration being applied
    settings,       \* what state::apply has copied
    running,        \* _endpoints: objects, with the entries they were made of
    newEp, tree, pending,   \* _diff_endpoints: places left, those of the tree of
                            \* a root, the names of failovers still to be found
    toDelete, toCreate,     \* entries to stop, places to create
    before, asked,  \* what ran at the last SIGHUP, and what it asked for
    again,          \* the previous configuration is being applied again
    broken,         \* that has failed as well
    reloads, failures

diffVars == <<newEp, tree, pending, toDelete, toCreate>>
signalVars == <<glState, before, asked, reloads>>
applierVars == <<apc, target, settings, running, diffVars, signalVars, again, broken,
                 failures>>

NoState == [valid |-> FALSE, settings |-> 0, endpoints |-> <<>>]

-----------------------------------------------------------------------------
(* Lists of endpoints, and some of their places.                           *)
Refers(e, name) == \E k \in DOMAIN e.failovers : e.failovers[k] = name
RootPlaces(l, S) == {i \in S : \A j \in S : ~Refers(l[j], l[i].name)}
Roots(l) == {l[i] : i \in RootPlaces(l, DOMAIN l)}
Named(l, S, name) == {i \in S : l[i].name = name}

At(i) == target.endpoints[i]
RootsLeft == RootPlaces(target.endpoints, newEp)
Cfgs == {o.cfg : o \in running}

(* An endpoint of _endpoints: what it was made of, whether it was created  *)
(* since the last SIGHUP, the entries of its chain.                        *)
Object(cfg, fresh, chain) == [cfg |-> cfg, fresh |-> fresh, chain |-> chain]

-----------------------------------------------------------------------------
(* An exception of apply() reaches hup_handler, which applies gl_state     *)
(* again; if that throws too the handler gives up.  In main() it ends the  *)
(* process.                                                                *)
Throw ==
    /\ IF glState = NoState
       THEN /\ apc' = "ended" /\ running' = {} /\ UNCHANGED <<target, again, broken>>
       ELSE IF again
       THEN /\ apc' = "idle" /\ broken' = TRUE /\ UNCHANGED <<target, again, running>>
       ELSE /\ apc' = "check" /\ target' = glState /\ again' = TRUE
            /\ UNCHANGED <<broken, running>>
    /\ UNCHANGED <<settings, diffVars, signalVars>>

FirstApply(c) ==
    /\ apc = "main"
    /\ target' = c /\ asked' = c
    /\ apc' = "check"
    /\ UNCHANGED <<glState, settings, running, diffVars, before, again, broken, reloads,
                   failures>>

(* SIGHUP is ignored while its handler runs; a file that cannot be parsed  *)
(* changes nothing.                                                        *)
HupHandler(c) ==
    /\ apc = "idle" /\ reloads < MaxReloads
    /\ reloads' = reloads + 1
    /\ asked' = c /\ target' = c /\ again' = FALSE
    /\ before' = Cfgs
    /\ running' = {Object(o.cfg, FALSE, o.chain) : o \in running}
    /\ apc' = "check"
    /\ UNCHANGED <<glState, settings, diffVars, broken, failures>>

(* state::apply up to endpoint::apply, which takes _endpointsm. *)
StateApply ==
    /\ apc = "check"
    /\ IF ~target.valid THEN Throw
       ELSE /\ settings' = target.settings
            /\ newEp' = DOMAIN target.endpoints
            /\ toDelete' = Cfgs
            /\ toCreate' = <<>>
            /\ apc' = "diff"
            /\ UNCHANGED <<target, running, tree, pending, signalVars, again, broken>>
    /\ UNCHANGED failures

-----------------------------------------------------------------------------
(* _diff_endpoints: the first entry that is no failover of those left. *)
FindRoot ==
    /\ apc = "diff" /\ newEp # {}
    /\ \/ RootsLeft = {} /\ Throw
       \/ \E i \in RootsLeft :
             /\ \A j \in RootsLeft : i <= j
             /\ tree' = <<i>> /\ pending' = At(i).failovers
             /\ newEp' = newEp \ {i}
             /\ apc' = "subentries"
             /\ UNCHANGED <<target, settings, running, toDelete, toCreate, signalVars,
                            again, broken>>
    /\ UNCHANGED failures

(* The failovers of the root, then those of its failovers: the list that   *)
(* the code walks grows under it.                                          *)
FindSubentry ==
    /\ apc = "subentries" /\ pending # <<>>
    /\ \/ Named(target.endpoints, newEp, Head(pending)) = {} /\ Throw
       \/ \E i \in Named(target.endpoints, newEp, Head(pending)) :
             /\ tree' = Append(tree, i)
             /\ pending' = Tail(pending) \o At(i).failovers
             /\ newEp' = newEp \ {i}
             /\ UNCHANGED <<apc, target, settings, running, toDelete, toCreate,
                            signalVars, again, broken>>
    /\ UNCHANGED failures

(* Mutant: an endpoint is looked for by its name. *)
FindRunningByName(e) == \E o \in running : o.cfg.name = e.name

(* current.find: by all fields of the configuration of the root. *)
FindRunning(e) == e \in Cfgs

MatchRoot ==
    /\ apc = "subentries" /\ pending = <<>>
    /\ IF FindRunning(At(tree[1]))
       THEN toDelete' = toDelete \ {At(tree[1])} /\ UNCHANGED toCreate
       ELSE toCreate' = toCreate \o tree /\ UNCHANGED toDelete
    /\ apc' = "diff"
    /\ UNCHANGED <<target, settings, running, newEp, tree, pending, signalVars, again,
                   broken, failures>>

(* exit() waits for the threads of the endpoint, _endpointsm is held. *)
RemoveEndpoint(cfg) ==
    /\ apc = "diff" /\ newEp = {} /\ cfg \in toDelete
    /\ running' = {o \in running : o.cfg # cfg}
    /\ toDelete' = toDelete \ {cfg}
    /\ UNCHANGED <<apc, target, settings, newEp, tree, pending, toCreate, signalVars,
                   again, broken, failures>>

(* The lock is released and update() is called on what is left. *)
Update ==
    /\ apc = "diff" /\ newEp = {} /\ toDelete = {}
    /\ apc' = "create"
    /\ UNCHANGED <<target, settings, running, diffVars, signalVars, again, broken,
                   failures>>

-----------------------------------------------------------------------------
(* The entry of endp_to_create with some name.                             *)
ToCreate(name) == At(CHOOSE i \in ToSet(toCreate) : At(i).name = name)

(* _create_failover of e finds the front failover in the list and creates  *)
(* it in the same way; the other failovers are its secondaries.            *)
Chain(e) ==
    LET down[s \in 1 .. Len(toCreate)] ==
          IF s = 1 THEN <<e>>
          ELSE LET last == Last(down[s - 1])
               IN  IF last.failovers = <<>> THEN down[s - 1]
                   ELSE Append(down[s - 1], ToCreate(last.failovers[1]))
    IN  down[Len(toCreate)]
Secondaries(e) ==
    UNION {{ToCreate(c.failovers[i]) : i \in 2 .. Len(c.failovers)} :
              c \in ToSet(Chain(e))}

Refused(e) ==
    \/ e.kind = "bad"
    \/ /\ e.kind = "connector"
       /\ \/ \E i \in 2 .. Len(Chain(e)) : Chain(e)[i].kind # "connector"
          \/ \E s \in Secondaries(e) : s.kind = "bad"

(* Endpoints that are no failover of another one to create are created in  *)
(* the order of the list.                                                  *)
Uncreated == {i \in RootPlaces(target.endpoints, ToSet(toCreate)) : At(i) \notin Cfgs}
NextToCreate ==
    {toCreate[k] : k \in {k \in DOMAIN toCreate :
        /\ toCreate[k] \in Uncreated
        /\ \A m \in 1 .. k - 1 : toCreate[m] \notin Uncreated}}

(* The subscriber and the objects of one root are created, registered and  *)
(* started.  An acceptor has no use for its failovers.                     *)
Create ==
    /\ apc = "create"
    /\ \E i \in NextToCreate :
          \/ Refused(At(i)) /\ Throw
          \/ /\ ~Refused(At(i))
             /\ running' = running \union
                   {Object(At(i), TRUE,
                           IF At(i).kind = "acceptor" THEN <<At(i)>> ELSE Chain(At(i)))}
             /\ UNCHANGED <<apc, target, settings, diffVars, signalVars, again, broken>>
    /\ UNCHANGED failures

CreationFails ==
    /\ apc = "create" /\ Uncreated # {} /\ failures < MaxFailures
    /\ failures' = failures + 1
    /\ Throw

(* apply() returns; only a new configuration is taken into gl_state. *)
Applied ==
    /\ apc = "create" /\ Uncreated = {}
    /\ glState' = IF again THEN glState ELSE target
    /\ broken' = FALSE
    /\ apc' = "idle"
    /\ UNCHANGED <<target, settings, running, diffVars, before, asked, again, reloads,
                   failures>>

-----------------------------------------------------------------------------
(* _endpointsm is held in the comparison and while endpoints are stopped.  *)
LockHeld == apc \in {"diff", "subentries"}

(* discard() takes _endpointsm and deletes what is in _endpoints. *)
Discard ==
    IF LockHeld THEN apc' = "stuck" /\ UNCHANGED running
                ELSE apc' = "ended" /\ running' = {}

(* SIGTERM interrupts the main thread wherever it is, once its handler is  *)
(* set, and discards the endpoints on that thread, which may hold the lock. *)
TermHandler ==
    /\ glState # NoState /\ apc \notin {"ended", "stuck"}
    /\ Discard
    /\ UNCHANGED <<target, settings, diffVars, signalVars, again, broken, failures>>

ApplierInit ==
    /\ apc = "main" /\ glState = NoState /\ target = NoState /\ asked = NoState
    /\ settings = 0 /\ running = {} /\ before = {}
    /\ newEp = {} /\ tree = <<>> /\ pending = <<>> /\ toDelete = {} /\ toCreate = <<>>
    /\ again = FALSE /\ broken = FALSE
    /\ reloads = 0 /\ failures = 0

ApplierStep ==
    \/ StateApply \/ FindRoot \/ FindSubentry \/ MatchRoot
    \/ \E cfg \in toDelete : RemoveEndpoint(cfg)
    \/ Update \/ Create \/ CreationFails \/ Applied

ApplierNext ==
    \/ \E c \in Configurations : FirstApply(c) \/ HupHandler(c)
    \/ ApplierStep
    \/ TermHandler

(* apply() is a call that goes on; signals may never come. *)
ApplierSpec == ApplierInit /\ [][ApplierNext]_applierVars /\ WF_applierVars(ApplierStep)

-----------------------------------------------------------------------------
(* Never two running endpoints of one name: they would share a queue file. *)
OneOfAName == \A o, p \in running : o.cfg.name = p.cfg.name => o = p

(* When a reload is over, and applying the old configuration has not       *)
(* failed as well, exactly the roots of the configuration in force run,    *)
(* under its settings, whether the new one was taken or refused.           *)
RunsWhatIsInForce ==
    apc = "idle" /\ ~broken =>
       Cfgs = Roots(glState.endpoints) /\ settings = glState.settings

(* What ran and is asked for again is never stopped, also if a reload is   *)
(* refused in the middle and undone.                                       *)
KeptUntouched ==
    apc # "ended" =>
       \A cfg \in before \intersect Roots(asked.endpoints) \intersect Roots(glState.endpoints) :
          \E o \in running : o.cfg = cfg /\ ~o.fresh

(* The three together (config/applier/endpoint.cc, main.cc).               *)
AppliedInv == OneOfAName /\ RunsWhatIsInForce /\ KeptUntouched

(* A reload ends, in the new configuration or in the old one, unless       *)
(* SIGTERM comes while _endpointsm is held.                                *)
AtRest == apc \in {"main", "idle", "ended", "stuck"}
ReloadEnds == []<>AtRest

(* "Try to find entry and subentries in the endpoints already running."    *)
(* (config/applier/endpoint.cc:493)  Only the entry is compared: a         *)
(* failover that changes under an unchanged root is not noticed.           *)
ChainsCurrent ==
    apc = "idle" => \A o \in running : ToSet(o.chain) \subseteq ToSet(glState.endpoints)

(* SIGTERM ends the process (main.cc:121). *)
NeverStuck == apc # "stuck"

=============================================================================
