------------------------- MODULE EnvironmentRouting -------------------------
(***************************************************************************)
(* Where a Work may run: the routing of environment-router.ts over the     *)
(* descriptors of contracts/environment.ts, which the adapters of          *)
(* environment-adapters.ts report.                                         *)
(*                                                                         *)
(* Routing is a function; its caller keeps the first binding it is given   *)
(* and passes it back (environment-router.test.mjs).  Descriptors, records *)
(* of qualification and the authority of the Work change in between.  One  *)
(* tick is the 30 seconds after which a report is stale.                   *)
(***************************************************************************)
EXTENDS Naturals, FiniteSets

CONSTANTS
  Sites,      \* ids of the environments in the scope of the owner, in the order of sorting
  Kinds,      \* types, one for each environment, that are looked at
  Device,     \* the environment a resource of the owner is on
  MaxEvents,  \* bound: changes of what routing is given
  NoBinding

Types     == {"CLOUD", "OWNER_COMPUTER", "LOCAL_FACTORY"}
Resources == {"repository", "owner", "local-qualification"}

ASSUME RoutingBounds ==
  Sites \subseteq Nat /\ IsFiniteSet(Sites) /\ Device \in Sites /\ Kinds \subseteq [Sites -> Types] /\ MaxEvents \in Nat

VARIABLES
  resource,   \* what the Work needs
  kind,       \* [Sites -> type]
  site,       \* [Sites -> the descriptor last reported]
  twice,      \* ids that are listed twice
  records,    \* qualifications
  authority,  \* the routing grant of the Work
  generation, \* of the Work
  bound,      \* what its caller keeps
  clock,
  events

routingVars == <<resource, kind, site, twice, records, authority, generation, bound, clock, events>>
inputVars   == <<resource, kind, site, twice, records, authority, generation, clock>>

Descriptor == [version : 1..2, online : BOOLEAN, seen : Nat, capacity : 0..1, able : BOOLEAN,
               revoked : BOOLEAN, protocol : 1..2]
QualificationRecord ==
  [identity : (Sites \X (1..2)), from : Nat, until : Nat, revoked : BOOLEAN]
Binding == [site : Sites, identity : (Sites \X (1..2)), generation : 1..2]

\* The type follows from the resource, and no preference.
Wanted == CASE resource = "repository" -> "CLOUD" [] resource = "owner" -> "OWNER_COMPUTER" [] OTHER -> "LOCAL_FACTORY"
Named  == IF resource = "owner" THEN {Device} ELSE Sites

\* A heartbeat and the room it reports are no part of an identity.
Identity(s) == <<s, site[s].version>>

Fresh(s) == site[s].seen <= clock /\ clock - site[s].seen < 1

\* What the owner is shown of an environment.
Summary(s) ==
  LET online == site[s].online /\ Fresh(s)
  IN [status |-> IF site[s].revoked THEN "REVOKED" ELSE IF ~online THEN "OFFLINE"
                 ELSE IF site[s].protocol # 1 THEN "UPDATE_REQUIRED" ELSE "ONLINE",
      able   |-> online /\ ~site[s].revoked /\ site[s].protocol = 1 /\ site[s].able]

Granted == authority.generation = generation /\ clock < authority.until

\* The one record of its identity says that the environment may do what the Work requires.
Qualified(s) ==
  LET own == {q \in records : q.identity = Identity(s)}
  IN Cardinality(own) = 1 /\ \A q \in own : ~q.revoked /\ q.from <= clock /\ clock < q.until

Routable(s) ==
  /\ kind[s] = Wanted /\ s \in Named \cap authority.sites
  /\ ~site[s].revoked /\ site[s].online /\ site[s].capacity > 0 /\ Fresh(s) /\ site[s].protocol = 1
  /\ Qualified(s) /\ site[s].able

First(S) == CHOOSE s \in S : \A t \in S : s <= t

\* routeEnvironment, with `bound' as the binding that is passed back.
RouteEnvironment ==
  CASE ~Granted -> [state |-> "DENIED", binding |-> NoBinding]
    [] Granted /\ bound # NoBinding ->
         IF bound.generation = generation /\ bound.site \in authority.sites
         THEN [state |-> "BOUND", binding |-> bound] ELSE [state |-> "DENIED", binding |-> NoBinding]
    [] OTHER ->
         IF twice # {} THEN [state |-> "DENIED", binding |-> NoBinding]
         ELSE IF \E s \in Sites : Routable(s)
         THEN LET s == First({t \in Sites : Routable(t)})
              IN [state |-> "SELECTED",
                  binding |-> [site |-> s, identity |-> Identity(s), generation |-> generation]]
         ELSE [state |-> "WAITING_FOR_ENVIRONMENT", binding |-> NoBinding]
-----------------------------------------------------------------------------
RoutingInit ==
  /\ resource \in Resources /\ kind \in Kinds
  /\ site = [s \in Sites |-> [version |-> 1, online |-> TRUE, seen |-> 0, capacity |-> 1, able |-> TRUE,
                              revoked |-> FALSE, protocol |-> 1]]
  /\ twice = {} /\ records = {[identity |-> <<s, 1>>, from |-> 0, until |-> 2, revoked |-> FALSE] : s \in Sites}
  /\ authority = [generation |-> 1, sites |-> Sites, until |-> 2]
  /\ generation = 1 /\ bound = NoBinding /\ clock = 0 /\ events = 0

\* The caller asks, and keeps what was selected.
AskRoute ==
  /\ RouteEnvironment.state = "SELECTED" /\ bound' = RouteEnvironment.binding
  /\ UNCHANGED <<inputVars, events>>

\* A report comes: a computer has room when it is ready, and what its owner permits; a
\* factory has none of its capabilities while it is not ready, and is not revoked by its
\* adapter.  The clock of a reporter may be ahead, and one that was never seen reports 0.
Report(s) ==
  /\ \E status \in {"ready", "offline"} \cup (IF kind[s] = "LOCAL_FACTORY" THEN {} ELSE {"revoked"}),
        free \in BOOLEAN, seen \in {0, clock, clock + 1} :
       LET ready == status = "ready"
           room  == IF kind[s] = "OWNER_COMPUTER" THEN ready ELSE free
       IN site' = [site EXCEPT ![s].online = ready, ![s].revoked = status = "revoked", ![s].seen = seen,
                               ![s].capacity = IF room THEN 1 ELSE 0,
                               ![s].able = IF kind[s] = "OWNER_COMPUTER" THEN free ELSE ready]
  /\ UNCHANGED <<twice, records, authority, generation, clock>>

\* Another build is installed, which speaks another protocol or the same.
Install(s) ==
  /\ site[s].version = 1
  /\ \E p \in 1..2 : site' = [site EXCEPT ![s].version = 2, ![s].protocol = p]
  /\ UNCHANGED <<twice, records, authority, generation, clock>>

ListTwice(s) == /\ s \notin twice /\ twice' = twice \cup {s}
                /\ UNCHANGED <<site, records, authority, generation, clock>>

Qualify(s) ==
  /\ \E from \in clock..(clock + 1) :
       records' = records \cup {[identity |-> Identity(s), from |-> from, until |-> clock + 2, revoked |-> FALSE]}
  /\ UNCHANGED <<site, twice, authority, generation, clock>>

Disqualify ==
  /\ \E q \in records : ~q.revoked /\ records' = (records \ {q}) \cup {[q EXCEPT !.revoked = TRUE]}
  /\ UNCHANGED <<site, twice, authority, generation, clock>>

Grant ==
  /\ \E S \in SUBSET Sites : authority' = [generation |-> generation, sites |-> S, until |-> clock + 1]
  /\ UNCHANGED <<site, twice, records, generation, clock>>

\* The Work gets another generation.
Regenerate == generation = 1 /\ generation' = 2 /\ UNCHANGED <<site, twice, records, authority, clock>>

RoutingTick == clock' = clock + 1 /\ UNCHANGED <<site, twice, records, authority, generation>>

InputChanges ==
  /\ events < MaxEvents /\ events' = events + 1 /\ UNCHANGED <<resource, kind, bound>>
  /\ \/ \E s \in Sites : Report(s) \/ Install(s) \/ ListTwice(s) \/ Qualify(s)
     \/ Disqualify \/ Grant \/ Regenerate \/ RoutingTick

RoutingNext == AskRoute \/ InputChanges
RoutingSpec == RoutingInit /\ [][RoutingNext]_routingVars
-----------------------------------------------------------------------------
RoutingTypeOK ==
  /\ resource \in Resources /\ kind \in Kinds /\ site \in [Sites -> Descriptor] /\ twice \subseteq Sites /\ records \subseteq QualificationRecord
  /\ bound \in Binding \cup {NoBinding} /\ generation \in 1..2

\* Routing and the owner's view agree, each with its own tests of time, revocation and
\* protocol: what is selected is shown online and able, and a Work waits only while no
\* environment it could have is shown so with room and its qualification.
SelectionShown ==
  /\ RouteEnvironment.state = "SELECTED" =>
       Summary(RouteEnvironment.binding.site) = [status |-> "ONLINE", able |-> TRUE]
  /\ RouteEnvironment.state = "WAITING_FOR_ENVIRONMENT" => \A s \in Sites :
       kind[s] = Wanted /\ s \in Named \cap authority.sites /\ Summary(s).able => site[s].capacity = 0 \/ ~Qualified(s)

\* "Dynamic heartbeat/capacity changes do not repin admitted identity": a bound environment
\* has another identity only when another build was installed, wherever else it went since.
IdentityPinned == bound # NoBinding =>
  Identity(bound.site) = bound.identity \/ site[bound.site].version > bound.identity[2]

\* A Work that is bound goes nowhere else, also when what it is bound to went away, was
\* revoked or listed twice, and nowhere at all once it has another generation.
BoundStays == bound # NoBinding =>
  /\ RouteEnvironment.state \in {"BOUND", "DENIED"}
  /\ RouteEnvironment.state = "BOUND" => RouteEnvironment.binding = bound /\ bound.generation = generation
  /\ RouteEnvironment.state = "DENIED" /\ Granted /\ bound.generation = generation => bound.site \notin authority.sites

RoutingSound == RoutingTypeOK /\ SelectionShown /\ IdentityPinned /\ BoundStays
=============================================================================
