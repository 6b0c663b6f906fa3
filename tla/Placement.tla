----------------------------- MODULE Placement ------------------------------
(***************************************************************************)
(* The attributes of one Service's load balancer over its life: where it   *)
(* is placed, what is attached to it and how its listeners are set up.     *)
(* The factory of the provider picks a default subnet from the VPC each    *)
(* time the process starts; createVpcLoadbalancer and updateVpcLoad-       *)
(* balancer apply the Service's annotations, which the user edits at any   *)
(* time, with the Service as it was when the ensure began.  Reconcile has  *)
(* the API calls one by one, the target groups, and the failures; here an  *)
(* ensure is two steps, the creation of the load balancer and the update   *)
(* every ensure ends with.                                                 *)
(***************************************************************************)
EXTENDS ServiceOptions, FiniteSets

CONSTANTS
    Requests,       \* the annotations and ports a Service may have
    Vpcs,           \* sequences of subnets, [id, slug, role]
    Configs,        \* of the provider: [cluster, defaultSubnet]
    Groups,         \* security groups of users in the VPC
    None,
    MaxChanges, MaxRestarts

ASSUME BoundsAssumption == MaxChanges \in Nat /\ MaxRestarts \in Nat

(* append finds or makes room for what is in the slice.                    *)
ASSUME CapacityAssumption == \A r \in Requests :
    LET n == Len(ParseAclSources(r.acl)) IN Capacity(n) \in Nat /\ Capacity(n) >= n

(* Annotations are strings; the API's listeners know two of the protocols  *)
(* a port of a Service may have; and a node port is far below 2^31.        *)
ASSUME RequestsAssumption == \A r \in Requests :
    /\ r.groups \in Seq(STRING) /\ r.idle.n \in Int /\ r.checkPort.n \in Int
    /\ r.checkNodePort \in 0..(Word \div 2 - 1)
    /\ r.ports \in Seq([name : STRING, port : Nat, proto : {"tcp", "udp"}])

(* The lists of sources are lists of strings, one for each port, and one   *)
(* for each name a port has.                                               *)
ASSUME SourcesAssumption == \A r \in Requests :
    /\ r.acl \in Seq(STRING)
    /\ \A i \in DOMAIN r.ports : LET p == r.ports[i] IN
         /\ r.aclNumber[p.port] \in Seq(STRING)
         /\ p.name # "" => r.aclName[p.name] \in Seq(STRING)

(* Identities and slugs are given by the API: an identity is not empty, a  *)
(* subnet keeps its slug, and no slug is an identity.                      *)
ASSUME VpcsAssumption ==
    /\ \A v \in Vpcs : v \in Seq([id : STRING \ {""}, slug : STRING, role : BOOLEAN])
    /\ \A v, w \in Vpcs : \A i \in DOMAIN v, j \in DOMAIN w :
         /\ v[i].slug # w[j].id
         /\ v[i].id = w[j].id => v[i].slug = w[j].slug

VARIABLES
    vpc,            \* the VPC's subnets, in the order the API lists them
    config,
    running, defaultSubnet,
    request,        \* of the Service, at present
    dirty, job,     \* the Service is queued; the request being ensured
    balancer,       \* the load balancer, or None
    rules,          \* of the managed security group; None without it
    settled,        \* the present request was ensured by this process
    call,           \* the last ensure's call for the load balancer
    changes, restarts

process == <<running, defaultSubnet>>
work == <<dirty, job, settled, call>>
vars == <<vpc, config, process, request, work, balancer, rules, changes, restarts>>

Managed == "managed"
SubnetIds == UNION {{s.id : s \in ToSet(v)} : v \in Vpcs}

TypeOK ==
    /\ vpc \in Vpcs /\ config \in Configs /\ running \in BOOLEAN
    /\ request \in Requests /\ job \in Requests \cup {None} /\ dirty \in BOOLEAN
    /\ settled \in BOOLEAN /\ call \in {"none", "create", "update"}
    /\ balancer # None =>
         /\ balancer.subnet \in SubnetIds /\ ToSet(balancer.groups) \subseteq Groups \cup {Managed}
         /\ \A i \in DOMAIN balancer.listeners : balancer.listeners[i].idle \in 0..(Word - 1)
         /\ balancer.check.port \in (-(Word \div 2))..(Word \div 2 - 1)
    /\ changes \in 0..MaxChanges /\ restarts \in 0..MaxRestarts

Init ==
    /\ vpc \in Vpcs /\ config \in Configs /\ running = FALSE /\ defaultSubnet = ""
    /\ request \in Requests /\ dirty = TRUE /\ job = None
    /\ balancer = None /\ rules = None /\ settled = FALSE /\ call = "none"
    /\ changes = 0 /\ restarts = 0

-----------------------------------------------------------------------------
(* Start-up                                                                *)

(* The first of the subnets at some indices, nothing if there are none.    *)
FirstOf(subnets, indices) ==
    {subnets[i].id : i \in {j \in indices : \A k \in indices : j =< k}}

(* discoverDefaultSubnet: the first subnet with the role label.            *)
DiscoverDefaultSubnet(subnets) == FirstOf(subnets, {i \in DOMAIN subnets : subnets[i].role})

(* thalassaCloudProviderFactory: the default subnet, nothing if it fails.  *)
Factory(c, subnets) ==
    IF c.defaultSubnet # "" THEN {c.defaultSubnet}
    ELSE IF subnets = <<>> THEN {}
    ELSE IF Len(subnets) > 1 THEN DiscoverDefaultSubnet(subnets) ELSE {subnets[1].id}

(* cloudInitializer exits without a cluster name; a process whose start    *)
(* fails is started again.                                                 *)
Start ==
    /\ ~running /\ config.cluster # "" /\ running' = TRUE
    /\ defaultSubnet' \in Factory(config, vpc)
    /\ dirty' = TRUE
    /\ UNCHANGED <<vpc, config, request, job, balancer, rules, settled, call, changes, restarts>>

-----------------------------------------------------------------------------
(* EnsureLoadBalancer                                                      *)

(* getSubnetIdentityForService.                                            *)
GetSubnetIdentity(req) == IF req.subnet # "" THEN req.subnet ELSE defaultSubnet

(* The subnet createVpcLoadbalancer picks: the first with that identity or *)
(* slug, or the VPC's first when none is asked for.                        *)
PickSubnet(req) ==
    LET asked == GetSubnetIdentity(req)
    IN FirstOf(vpc, {i \in DOMAIN vpc : asked \in {"", vpc[i].id, vpc[i].slug}})

TrimSpace(v) == IF v = " " THEN "" ELSE v

(* verifySecurityGroupsExist; an empty annotation is a group without name. *)
GroupsExist(req) == ToSet(req.groups) \subseteq Groups

DesiredGroups(req) ==
    req.groups \o (IF GetBoolAnnotation(req.managed) THEN <<Managed>> ELSE <<>>)

(* The load balancers there can be; "no load balancer" is not one of them. *)
Balancers ==
    [subnet : SubnetIds, groups : Seq(Groups \cup {Managed}),
     reserved : {TrimSpace(r.reserved) : r \in Requests},
     listeners : {<<>>} \cup {DesiredListeners(r) : r \in Requests},
     check : {NoHealthCheck} \cup {HealthCheck(r) : r \in Requests}]

ASSUME NoneAssumption == None \notin Requests \cup Balancers

(* Mutant: an existing group is taken as it is.                            *)
MutEnsureManagedSecurityGroup(req) ==
    rules' = IF GetBoolAnnotation(req.managed) /\ rules = None
             THEN BuildIngressRules(DesiredListeners(req)) ELSE rules

(* ensureManagedSecurityGroup, if shouldCreateSecurityGroup: created or    *)
(* given the rules of today.  It is kept when no longer asked for.         *)
EnsureManagedSecurityGroup(req) ==
    rules' = IF GetBoolAnnotation(req.managed) THEN BuildIngressRules(DesiredListeners(req)) ELSE rules

BeginEnsure ==
    /\ running /\ dirty /\ job = None /\ dirty' = FALSE /\ job' = request /\ call' = "none"
    /\ UNCHANGED <<vpc, config, process, request, balancer, rules, settled, changes, restarts>>

(* An error puts the Service back into the queue.                          *)
Fail == dirty' = TRUE /\ job' = None /\ settled' = FALSE

(* createVpcLoadbalancer.                                                  *)
CreateBalancer ==
    /\ job # None /\ balancer = None
    /\ IF PickSubnet(job) = {} \/ ~GroupsExist(job)
       THEN Fail /\ UNCHANGED <<balancer, rules, call>>
       ELSE /\ EnsureManagedSecurityGroup(job)
            /\ \E s \in PickSubnet(job) :
                 balancer' = [subnet |-> s, groups |-> DesiredGroups(job),
                              reserved |-> TrimSpace(job.reserved),
                              listeners |-> <<>>, check |-> NoHealthCheck]
            /\ call' = "create" /\ UNCHANGED <<dirty, job, settled>>
    /\ UNCHANGED <<vpc, config, process, request, changes, restarts>>

(* The subnet the API understands by an identity or a slug.                *)
Resolve(asked) == {s.id : s \in {x \in ToSet(vpc) : asked \in {x.id, x.slug}}}

(* Mutant: the managed group is not part of the comparison.                *)
MutNeedsUpdate(req, preferred) ==
    \/ req.groups # balancer.groups
    \/ balancer.subnet # preferred
    \/ TrimSpace(req.reserved) # balancer.reserved

(* A list of groups in another order, or a slug, is a difference.          *)
NeedsUpdate(req, preferred) ==
    \/ DesiredGroups(req) # balancer.groups
    \/ balancer.subnet # preferred
    \/ TrimSpace(req.reserved) # balancer.reserved

(* updateVpcLoadbalancerListenersAndTargetGroups and updateVpcLoad-        *)
(* balancer: a policy that is not accepted stops before anything is done,  *)
(* a group that does not exist after the listeners.                        *)
UpdateBalancer ==
    /\ job # None /\ balancer # None
    /\ LET preferred == IF GetSubnetIdentity(job) = "" THEN balancer.subnet ELSE GetSubnetIdentity(job)
           moved == IF balancer.subnet = preferred THEN {preferred} ELSE Resolve(preferred)
           served == [balancer EXCEPT !.listeners = DesiredListeners(job), !.check = HealthCheck(job)]
       IN IF ~PolicyAccepted(job.policy)
          THEN Fail /\ UNCHANGED <<balancer, rules, call>>
          ELSE IF ~GroupsExist(job)
          THEN Fail /\ balancer' = served /\ UNCHANGED <<rules, call>>
          ELSE /\ EnsureManagedSecurityGroup(job)
               /\ IF moved = {} THEN Fail /\ balancer' = served /\ UNCHANGED call
                  ELSE /\ \E s \in moved :
                            balancer' = [served EXCEPT !.subnet = s, !.groups = DesiredGroups(job),
                                                       !.reserved = TrimSpace(job.reserved)]
                       /\ call' = IF NeedsUpdate(job, preferred) THEN "update" ELSE call
                       /\ settled' = (job = request) /\ job' = None /\ UNCHANGED dirty
    /\ UNCHANGED <<vpc, config, process, request, changes, restarts>>

-----------------------------------------------------------------------------
(* Users, the VPC and the process                                          *)

EditService ==
    /\ changes < MaxChanges /\ changes' = changes + 1
    /\ request' \in Requests \ {request} /\ dirty' = TRUE /\ settled' = FALSE
    /\ UNCHANGED <<vpc, config, process, job, balancer, rules, call, restarts>>

(* Subnets come, are labelled and listed in another order; one that holds  *)
(* the load balancer stays.                                                *)
ChangeVpc ==
    /\ changes < MaxChanges /\ changes' = changes + 1
    /\ vpc' \in Vpcs \ {vpc}
    /\ balancer # None => balancer.subnet \in {s.id : s \in ToSet(vpc')}
    /\ UNCHANGED <<config, process, request, work, balancer, rules, restarts>>

(* Nodes or endpoints change: the same update for the same Service.        *)
Resync ==
    /\ running /\ ~dirty /\ job = None /\ dirty' = TRUE
    /\ UNCHANGED <<vpc, config, process, request, job, balancer, rules, settled, call, changes, restarts>>

Stop ==
    /\ running /\ restarts < MaxRestarts /\ restarts' = restarts + 1
    /\ running' = FALSE /\ defaultSubnet' = "" /\ job' = None /\ settled' = FALSE
    /\ UNCHANGED <<vpc, config, request, dirty, balancer, rules, call, changes>>

Next ==
    \/ Start \/ BeginEnsure \/ CreateBalancer \/ UpdateBalancer
    \/ EditService \/ ChangeVpc \/ Resync \/ Stop

Spec == Init /\ [][Next]_vars

-----------------------------------------------------------------------------
(* Properties                                                              *)

(* An ensured Service has a load balancer placed and equipped as its       *)
(* annotations ask, and the rules of its managed security group admit      *)
(* exactly the sources of its listeners, whatever it asked for before.     *)
(* With a health check node port (externalTrafficPolicy Local) it is       *)
(* probed, on that port unless another valid one is given.                 *)
SettledAsRequested ==
    settled =>
        /\ balancer.subnet \in Resolve(GetSubnetIdentity(request)) \cup {GetSubnetIdentity(request)}
        /\ ToSet(balancer.groups) = ToSet(request.groups) \cup
               (IF request.managed = "true" THEN {Managed} ELSE {})
        /\ balancer.reserved = TrimSpace(request.reserved)
        /\ request.managed = "true" =>
               rules = UNION {{[proto |-> l.proto, port |-> l.port, source |-> s] : s \in ToSet(l.sources)}
                              : l \in ToSet(balancer.listeners)}
        /\ request.checkNodePort > 0 =>
               /\ balancer.check.on
               /\ request.checkPort.kind # "int" => balancer.check.port = request.checkNodePort

(* A listener admits the valid sources given for all ports, for the name   *)
(* and for the number of its port, each once, and none given for another   *)
(* port, although the ports' lists are built in one array.                 *)
SourcesAsConfigured ==
    settled => \A i \in DOMAIN request.ports :
        LET p == request.ports[i]
            sources == balancer.listeners[i].sources
        IN /\ ToSet(sources) = Cidrs \cap (ToSet(request.acl) \cup ToSet(request.aclNumber[p.port])
                \cup (IF p.name = "" THEN {} ELSE ToSet(request.aclName[p.name])))
           /\ Len(sources) = Cardinality(ToSet(sources))

(* The idle timeout sent is the one asked for when 32 bits hold it, and    *)
(* the default when it is no number.  Outside that range it wraps around.  *)
LimitsAsRequested ==
    settled => \A i \in DOMAIN balancer.listeners :
        LET idle == balancer.listeners[i].idle IN
        /\ request.idle.kind = "int" /\ request.idle.n \in 0..(Word - 1) => idle = request.idle.n
        /\ request.idle.kind # "int" => idle = DefaultIdleConnectionTimeout

(* Ensuring a Service again that is as it was asks for no update of its    *)
(* load balancer, if the subnet is given by its identity.                  *)
NoNeedlessUpdate ==
    [][settled /\ settled' /\ GetSubnetIdentity(request) \in SubnetIds
          => (call' = "update" => call = "update")]_vars
=============================================================================
