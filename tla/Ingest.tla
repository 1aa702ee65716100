------------------------------- MODULE Ingest -------------------------------
(***************************************************************************)
(* From the interface to the flow queue: the capture workers               *)
(* (src/src/capture/mod.rs), their kernel port filter (pcap_source.rs),    *)
(* the packet decoder (parser.rs) with the fragment cache, the service     *)
(* registry (http/mod.rs) that operators change through the API            *)
(* (api/mod.rs), and the source topology that workers fill (topology.rs).  *)
(*                                                                         *)
(* Data: a frame is the sequence of its headers, outermost first; a field  *)
(* that only sizes or checks a header is the flag `short` (the decoder     *)
(* gives an error).  The protocol field of a header is the kind of the     *)
(* next one.  Extension headers of IPv6 are skipped and left out.  An L2   *)
(* domain is the sequence of tags and tunnels around a packet, where the   *)
(* code mixes them into a hash.  A service is its port.                    *)
(***************************************************************************)
EXTENDS FragmentCache

CONSTANTS
    Workers, Operators,
    Ports,          \* ports a service may have
    Frames,         \* the frames on the wire
    Excluded,       \* those the operator's bpf_filter turns away, none without it
    Datagrams,      \* version -> headers inside a fragmented datagram
    Decap,          \* tunnel_decapsulation
    MaxDepth,       \* MAX_TUNNEL_DEPTH
    QueueCapacity,  \* of the flow shard
    MaxSources, SourceTtl,
    InitPorts,      \* services the database holds at start
    MaxRequests,    \* model bound: requests of operators
    MaxInputs       \* model bound: requests and frames together

ASSUME PortsAssumption == InitPorts \subseteq Ports
ASSUME WorkersAssumption == IsFiniteSet(Workers)
ASSUME IngestLimitsAssumption ==
    /\ {MaxDepth, SourceTtl} \subseteq Nat
    /\ {QueueCapacity, MaxSources} \subseteq Nat \ {0}

VARIABLES
    database,    \* the services table of PostgreSQL
    services,    \* ServiceRegistry.by_port
    generation,  \* ServiceRegistry.generation
    op,          \* op[o]: the request operator o has in flight
    overlapped,  \* history: two requests were in flight at once
    requests,    \* requests so far
    worker,      \* worker[w]: where the loop of worker w is
    filter,      \* filter[w]: its kernel filter, and the generation of it
    cache,       \* the fragment cache
    pending,     \* pending[w]: source -> packets not yet merged
    topo,        \* TopologyState
    observed,    \* history: packets counted for the topology
    forgotten,   \* history: packets of sources that went with their TTL
    queue,       \* packets in the flow queue
    reassembled, \* history: payloads of completed datagrams
    frames       \* frames so far

registryVars == <<database, services, generation, op, overlapped, requests>>
workerVars == <<worker, filter>>
topoVars == <<pending, topo, observed, forgotten>>
vars == <<registryVars, workerVars, cache, topoVars, queue, reassembled, frames>>

-----------------------------------------------------------------------------
(* PacketDecoder                                                           *)

Going == [kind |-> "going"]
Start == [inside |-> "link", depth |-> 0, domain |-> <<>>, src |-> "", dst |-> "",
          v4 |-> FALSE, res |-> Going]
Finish(d, res) == [d EXCEPT !.res = res]
Ignored(d) == Finish(d, [kind |-> "ignored"])

(* Slip: a tunnel is identified by its endpoints in the order seen.        *)
TunnelByOrder(d, id) ==
    [d EXCEPT !.depth = @ + 1, !.domain = Append(@, <<<<d.src, d.dst>>, id>>)]

(* mix_tunnel_domain: the endpoints of a tunnel count in either order.     *)
IntoTunnel(d, id) ==
    [d EXCEPT !.depth = @ + 1, !.domain = Append(@, <<{d.src, d.dst}, id>>)]

MayDecap(d) == Decap /\ d.depth < MaxDepth

(* FlowKey::canonical_with_domain and the parsed packet.                   *)
ParsedPacket(d, l) ==
    [kind |-> "packet",
     key |-> [ends |-> {<<d.src, l.sport>>, <<d.dst, l.dport>>}, proto |-> l.t,
              domain |-> d.domain],
     from |-> <<d.src, l.sport>>, sport |-> l.sport, dport |-> l.dport,
     src |-> d.src, v4 |-> d.v4]

decode_ethernet(d, l) ==
    IF d.depth > MaxDepth \/ Len(l.tags) > 4 THEN Ignored(d)
    ELSE [d EXCEPT !.domain = @ \o l.tags]

(* decode_ipv4, decode_ipv6: a fragment waits in the cache (an IPv6 atomic *)
(* one is not a fragment); an IP header inside an IP payload is a tunnel.  *)
decode_ip(d, l) ==
    IF d.inside = "ip" /\ ~MayDecap(d) THEN Ignored(d)
    ELSE LET t == IF d.inside = "ip" THEN IntoTunnel(d, l.t) ELSE d
             e == [t EXCEPT !.inside = "ip", !.src = l.src, !.dst = l.dst,
                            !.v4 = (l.t = "ip4")]
         IN  IF "frag" \in DOMAIN l
             THEN Finish(e, [kind |-> "fragment", frag |-> l.frag,
                             key |-> <<l.t, e.domain, l.src, l.dst, l.frag.id>>])
             ELSE e

decode_gre(d, l) ==
    IF ~MayDecap(d) THEN Ignored(d)
    ELSE [IntoTunnel(d, l.id) EXCEPT !.inside = "link"]

(* decode_udp of a datagram to the VXLAN port.                             *)
decode_vxlan(d, l) ==
    IF MayDecap(d) THEN [IntoTunnel(d, l.id) EXCEPT !.inside = "link"]
    ELSE Finish(d, ParsedPacket(d, l))

DecodeLayer(d, l) ==
    IF d.res # Going THEN d
    ELSE IF "short" \in DOMAIN l THEN Finish(d, [kind |-> "error"])
    ELSE CASE l.t = "eth" -> decode_ethernet(d, l)
           [] l.t \in {"ip4", "ip6"} -> decode_ip(d, l)
           [] l.t = "gre" -> decode_gre(d, l)
           [] l.t = "vxlan" -> decode_vxlan(d, l)
           [] l.t \in {"tcp", "udp"} -> Finish(d, ParsedPacket(d, l))
           [] OTHER -> Ignored(d)

decode(d, layers) ==
    LET after[n \in 0 .. Len(layers)] ==
            IF n = 0 THEN d ELSE DecodeLayer(after[n - 1], layers[n])
    IN  after[Len(layers)]

(* A completed datagram is decoded from where its fragments stood; the     *)
(* ports are those of its first unit.                                      *)
DecodeCompleted(d, payload) ==
    decode([d EXCEPT !.res = Going], Datagrams[payload[1][2]])

-----------------------------------------------------------------------------
(* Filters                                                                 *)

Outer(f) == f.layers[1]
Second(f) == f.layers[2]
Third(f) == f.layers[3]

(* A fragment carries the units of the datagram from its offset on.        *)
IsCut(g) ==
    /\ g.off \in Nat /\ g.more \in BOOLEAN
    /\ g.data \in Seq(Range(g.data))
    /\ \A i \in DOMAIN g.data : g.data[i][1] = g.off + i - 1

(* On the wire an Ethernet header comes first, then what its EtherType     *)
(* names and what that carries; anything unknown stands for nothing.       *)
ASSUME FramesAssumption ==
    \A f \in Frames :
        /\ f.egress \in BOOLEAN /\ f.layers \in Seq(Range(f.layers)) /\ Len(f.layers) >= 3
        /\ Outer(f).t = "eth" /\ Second(f).t \notin {"eth", "gre", "tcp", "udp", "vxlan"}
        /\ Third(f).t # "eth"
        /\ \A l \in Range(f.layers) :
              /\ "t" \in DOMAIN l
              /\ l.t \in {"ip4", "ip6"} => {"src", "dst"} \subseteq DOMAIN l
              /\ l.t \in {"tcp", "udp"} => {"sport", "dport"} \subseteq DOMAIN l
              /\ l.t = "eth" => "tags" \in DOMAIN l
              /\ l.t \in {"gre", "vxlan"} => "id" \in DOMAIN l
              /\ "frag" \in DOMAIN l => IsCut(l.frag)

IsIp4(f) == Second(f).t = "ip4" /\ "short" \notin DOMAIN Second(f)
IsFragment(f) == "frag" \in DOMAIN Second(f)
IsTunnel(f) == Third(f).t \in {"gre", "ip4", "ip6"}
HasPorts(f) == Third(f).t \in {"tcp", "udp", "vxlan"}

(* live_port_filter_expression and live_fail_open_expression, evaluated by *)
(* the kernel. The operator's filter narrows the clause on ports alone.    *)
KernelPasses(kf, f) ==
    IF kf.open THEN Len(Outer(f).tags) > 0 \/ Second(f).t \in {"ip4", "ip6"}
    ELSE /\ kf.ports # {}
         /\ \/ Len(Outer(f).tags) > 0 \/ Second(f).t = "ip6"
            \/ /\ Second(f).t = "ip4"
               /\ \/ IsFragment(f)
                  \/ ~IsFragment(f) /\ IsTunnel(f)
                  \/ ~IsFragment(f) /\ HasPorts(f) /\
                        \/ Third(f).t = "vxlan"
                        \/ /\ f \notin Excluded
                           /\ \/ Third(f).dport \in kf.ports
                              \/ f.egress /\ Third(f).sport \in kf.ports

(* Slip: the prefilter looks at ports before it asks for fragments.        *)
PrefilterFirst(f, ports) ==
    /\ ports # {}
    /\ \/ ~IsIp4(f)
       \/ ~IsFragment(f) /\ HasPorts(f) /\
             \/ (IF f.egress THEN Third(f).sport ELSE Third(f).dport) \in ports
             \/ Decap /\ Third(f).t = "vxlan"
       \/ ~IsFragment(f) /\ IsTunnel(f) /\ Decap

(* frame_may_belong_to_service on live capture.                            *)
frame_may_belong_to_service(f, ports) ==
    /\ ports # {}
    /\ \/ ~IsIp4(f)
       \/ IsFragment(f)
       \/ HasPorts(f) /\
             \/ (IF f.egress THEN Third(f).sport ELSE Third(f).dport) \in ports
             \/ Decap /\ Third(f).t = "vxlan"
       \/ IsTunnel(f) /\ Decap

(* service_flow_visible of packet_scope, on live capture.                  *)
service_flow_visible(p, ports, egress) ==
    p.dport \in ports \/ (egress /\ p.sport \in ports)

-----------------------------------------------------------------------------
(* Requests of operators: create, update and delete of a service.  The     *)
(* registry is loaded, cloned, stored and only then its generation raised. *)

OpIdle(o) == op[o].at = "idle"
OpGoto(o, s) == op' = [op EXCEPT ![o] = s]

(* create_service refuses a port that the registry has; update_service     *)
(* does not look.                                                          *)
Request(o, kind, port) ==
    /\ OpIdle(o) /\ requests < MaxRequests /\ requests + frames < MaxInputs
    /\ kind = "create" => port \notin services
    /\ requests' = requests + 1
    /\ overlapped' = (overlapped \/ \E x \in Operators \ {o} : ~OpIdle(x))
    /\ OpGoto(o, [at |-> "db", kind |-> kind, port |-> port])
    /\ UNCHANGED <<database, services, generation>>

(* upsert_service or delete_service of PostgresStore; the row may be gone. *)
Database(o) ==
    /\ op[o].at = "db"
    /\ IF op[o].kind = "delete"
       THEN /\ database' = database \ {op[o].port}
            /\ OpGoto(o, IF op[o].port \in database THEN [op[o] EXCEPT !.at = "load"]
                         ELSE [at |-> "idle"])
       ELSE /\ database' = database \cup {op[o].port}
            /\ OpGoto(o, [op[o] EXCEPT !.at = "load"])
    /\ UNCHANGED <<services, generation, overlapped, requests>>

(* Slip: the upsert puts the edited service in place of the map.           *)
EditedAlone(kind, port, map) == IF kind = "delete" THEN map \ {port} ELSE {port}

Edited(kind, port, map) == IF kind = "delete" THEN map \ {port} ELSE map \cup {port}

Load(o) ==
    /\ op[o].at = "load"
    /\ IF op[o].kind = "delete" /\ op[o].port \notin services
       THEN OpGoto(o, [at |-> "idle"])
       ELSE OpGoto(o, [at |-> "store", map |-> Edited(op[o].kind, op[o].port, services)])
    /\ UNCHANGED <<database, services, generation, overlapped, requests>>

Store(o) ==
    /\ op[o].at = "store"
    /\ services' = op[o].map
    /\ OpGoto(o, [op[o] EXCEPT !.at = "bump"])
    /\ UNCHANGED <<database, generation, overlapped, requests>>

Bump(o) ==
    /\ op[o].at = "bump"
    /\ generation' = generation + 1
    /\ OpGoto(o, [at |-> "idle"])
    /\ UNCHANGED <<database, services, overlapped, requests>>

-----------------------------------------------------------------------------
(* Topology                                                                *)

Count(m, x) == IF x \in DOMAIN m THEN m[x] ELSE 0
Alive(src) == {x \in DOMAIN src : src[x].age <= SourceTtl}
Packets(src, S) == SumOf([x \in S |-> src[x].packets])

(* Sources that were not observed for their TTL leave the table.           *)
Collected(t) == [t EXCEPT !.sources = Restrict(@, Alive(@))]

(* Slip: a source that finds the table full is not counted.                *)
MergeDropsOverflow(t, batch) ==
    {[t EXCEPT !.sources = [x \in DOMAIN @ |->
        [packets |-> @[x].packets + Count(batch, x),
         age |-> IF x \in DOMAIN batch THEN 0 ELSE @[x].age]]]}

(* What merge_batch may make of the table: known sources are added to, new *)
(* ones enter while there is room, the rest is overflow.  The order in     *)
(* which the map of the batch is drained decides who enters.               *)
Merged(t, batch) ==
    LET known == DOMAIN t.sources
        new == DOMAIN batch \ known
        room == MaxSources - Cardinality(known)
    IN  {[sources |-> [x \in known \cup in |->
                         [packets |-> Count([y \in known |-> t.sources[y].packets], x)
                                      + Count(batch, x),
                          age |-> IF x \in DOMAIN batch THEN 0 ELSE t.sources[x].age]],
          overflow |-> t.overflow + SumOf(Restrict(batch, new \ in))]
            : in \in {S \in SUBSET new :
                        Cardinality(S) = Min({room, Cardinality(new)})}}

(* LocalTopologyObserver::flush of worker w, whose batch has become b.  The*)
(* collection is due at most every GC interval.                            *)
Flush(w, b) ==
    /\ pending' = [pending EXCEPT ![w] = <<>>]
    /\ \E gc \in BOOLEAN :
        LET t == IF gc THEN Collected(topo) ELSE topo
        IN  /\ IF b = <<>> THEN UNCHANGED <<topo, forgotten>>
               ELSE /\ topo' \in Merged(t, b)
                    /\ forgotten' = forgotten +
                         IF gc THEN Packets(topo.sources, DOMAIN topo.sources \ Alive(topo.sources))
                         ELSE 0

KeepPending(w, b) ==
    /\ pending' = [pending EXCEPT ![w] = b]
    /\ UNCHANGED <<topo, forgotten>>

-----------------------------------------------------------------------------
(* A capture worker                                                        *)

WAt(w, where) == worker[w].at = where
WGoto(w, s) == worker' = [worker EXCEPT ![w] = s] /\ UNCHANGED filter
Top == [at |-> "top"]
Rest(w) == UNCHANGED <<registryVars, cache, topoVars, queue, reassembled, frames>>

(* The loop compares the generation it has installed with the current one. *)
CheckGeneration(w) ==
    /\ WAt(w, "top")
    /\ WGoto(w, IF generation = filter[w].gen THEN [at |-> "recv"]
                ELSE [at |-> "ports", read |-> generation])
    /\ Rest(w)

ReadPorts(w) ==
    /\ WAt(w, "ports")
    /\ WGoto(w, [at |-> "install", read |-> worker[w].read, ports |-> services])
    /\ Rest(w)

(* Slip: the generation is read again once the filter is installed.        *)
InstallReadsAgain(w) ==
    /\ WAt(w, "install")
    /\ worker' = [worker EXCEPT ![w] = [at |-> "recv"]]
    /\ \E open \in BOOLEAN : filter' = [filter EXCEPT ![w] =
          [gen |-> generation, open |-> open, ports |-> worker[w].ports]]
    /\ Rest(w)

(* configure_port_filter: optimized, or failed open.                       *)
InstallFilter(w) ==
    /\ WAt(w, "install")
    /\ worker' = [worker EXCEPT ![w] = [at |-> "recv"]]
    /\ \E open \in BOOLEAN : filter' = [filter EXCEPT ![w] =
          [gen |-> worker[w].read, open |-> open, ports |-> worker[w].ports]]
    /\ Rest(w)

(* Neither filter can be installed: the worker ends, and its observer is   *)
(* flushed when it is dropped.                                             *)
InstallFails(w) ==
    /\ WAt(w, "install")
    /\ WGoto(w, [at |-> "stopped"])
    /\ Flush(w, pending[w])
    /\ UNCHANGED <<registryVars, cache, observed, queue, reassembled, frames>>

(* No frame, or a receive error.  The flush that may be due after an error *)
(* or at the end of a batch is taken here.                                 *)
NoFrame(w) ==
    /\ WAt(w, "recv")
    /\ WGoto(w, Top)
    /\ Flush(w, pending[w]) \/ KeepPending(w, pending[w])
    /\ UNCHANGED <<registryVars, cache, observed, queue, reassembled, frames>>

(* A frame that the kernel filter lets through, up to the decoder's        *)
(* verdict; a fragment goes to the shared cache on the way.                *)
Receive(w, f) ==
    /\ WAt(w, "recv") /\ requests + frames < MaxInputs
    /\ KernelPasses(filter[w], f)
    /\ frames' = frames + 1
    /\ IF ~frame_may_belong_to_service(f, services)
       THEN WGoto(w, Top) /\ UNCHANGED <<cache, reassembled>>
       ELSE LET d == decode(Start, f.layers)
                ToGate(p) == WGoto(w, IF p.kind = "packet"
                                      THEN [at |-> "gate", pkt |-> p, frame |-> f]
                                      ELSE Top)
            IN  IF d.res.kind # "fragment"
                THEN ToGate(d.res) /\ UNCHANGED <<cache, reassembled>>
                ELSE \E r \in insert(cache, d.res.key, d.res.frag.off, d.res.frag.more,
                                     d.res.frag.ragged, d.res.frag.data) :
                       /\ cache' = r.cache
                       /\ IF r.out = "complete"
                          THEN /\ ToGate(DecodeCompleted(d, r.payload).res)
                               /\ reassembled' = reassembled \cup {r.payload}
                          ELSE WGoto(w, Top) /\ UNCHANGED reassembled
    /\ UNCHANGED <<registryVars, topoVars, queue>>

(* Topology counts remote IPv4 senders to a service port; the packet goes  *)
(* on if it belongs to a service.  The registry is read anew.              *)
Gate(w) ==
    /\ WAt(w, "gate")
    /\ LET p == worker[w].pkt
           counted == ~worker[w].frame.egress /\ p.dport \in services /\ p.v4
           b == Put(pending[w], p.src, Count(pending[w], p.src) + 1)
       IN  /\ IF counted
              THEN /\ observed' = observed + 1
                   /\ Flush(w, b) \/ KeepPending(w, b)
              ELSE UNCHANGED topoVars
           /\ WGoto(w, IF service_flow_visible(p, services, worker[w].frame.egress)
                       THEN [at |-> "send", pkt |-> p] ELSE Top)
    /\ UNCHANGED <<registryVars, cache, queue, reassembled, frames>>

(* send_timeout: the queue takes the packet, or it is dropped after the    *)
(* wait.                                                                   *)
Send(w) ==
    /\ WAt(w, "send")
    /\ WGoto(w, Top)
    /\ queue' = IF queue < QueueCapacity THEN queue + 1 ELSE queue
    /\ UNCHANGED <<registryVars, cache, topoVars, reassembled, frames>>

-----------------------------------------------------------------------------
(* The flow shard takes a packet.                                          *)
Dequeue ==
    /\ queue > 0
    /\ queue' = queue - 1
    /\ UNCHANGED <<registryVars, workerVars, cache, topoVars, reassembled, frames>>

(* TopologyTracker::snapshot, for the API.                                 *)
Snapshot ==
    /\ topo' = Collected(topo)
    /\ forgotten' = forgotten +
          Packets(topo.sources, DOMAIN topo.sources \ Alive(topo.sources))
    /\ UNCHANGED <<registryVars, workerVars, cache, pending, observed, queue, reassembled, frames>>

Tick ==
    /\ cache' = AgeCache(cache)
    /\ topo' = [topo EXCEPT !.sources = [x \in DOMAIN @ |->
          [packets |-> @[x].packets,
           age |-> IF @[x].age <= SourceTtl THEN @[x].age + 1 ELSE @[x].age]]]
    /\ UNCHANGED <<registryVars, workerVars, pending, observed, forgotten, queue,
                   reassembled, frames>>

Init ==
    /\ database = InitPorts /\ services = InitPorts /\ generation = 1
    /\ op = [o \in Operators |-> [at |-> "idle"]]
    /\ overlapped = FALSE /\ requests = 0
    /\ worker = [w \in Workers |-> Top]
    /\ filter = [w \in Workers |-> [gen |-> 0, open |-> TRUE, ports |-> {}]]
    /\ cache = EmptyCache
    /\ pending = [w \in Workers |-> <<>>]
    /\ topo = [sources |-> <<>>, overflow |-> 0]
    /\ observed = 0 /\ forgotten = 0
    /\ queue = 0 /\ reassembled = {} /\ frames = 0

OperatorStep(o) ==
    /\ \/ \E kind \in {"create", "update", "delete"}, port \in Ports : Request(o, kind, port)
       \/ Database(o) \/ Load(o) \/ Store(o) \/ Bump(o)
    /\ UNCHANGED <<workerVars, cache, topoVars, queue, reassembled, frames>>

WorkerStep(w) ==
    \/ CheckGeneration(w) \/ ReadPorts(w) \/ InstallFilter(w) \/ InstallFails(w)
    \/ NoFrame(w) \/ Gate(w) \/ Send(w)
    \/ \E f \in Frames : Receive(w, f)

Next ==
    \/ \E o \in Operators : OperatorStep(o)
    \/ \E w \in Workers : WorkerStep(w)
    \/ Dequeue \/ Snapshot \/ Tick

Fairness ==
    /\ \A o \in Operators : WF_vars((Database(o) \/ Load(o) \/ Store(o) \/ Bump(o)) /\
          UNCHANGED <<workerVars, cache, topoVars, queue, reassembled, frames>>)
    /\ \A w \in Workers : WF_vars(WorkerStep(w))

Spec == Init /\ [][Next]_vars /\ Fairness

-----------------------------------------------------------------------------
(* Properties                                                              *)

(* A packet that a service wants: what userspace would hand to the flows.  *)
(* Traffic of this host to a service port elsewhere is told apart, since   *)
(* frame_may_belong_to_service turns away what service_flow_visible would  *)
(* let through.                                                            *)
Wanted(f) ==
    LET r == decode(Start, f.layers).res
    IN  \/ r.kind = "fragment"
        \/ /\ r.kind = "packet" /\ service_flow_visible(r, services, f.egress)
           /\ f.egress => r.sport \in services

(* No blind spot: a worker about to receive that has seen the current      *)
(* generation, and is not behind a half-published change, lets every frame *)
(* of a configured service through its kernel filter and its prefilter,    *)
(* but for those the operator's own filter excludes.                       *)
NoBlindSpot ==
    \A w \in Workers :
        (/\ WAt(w, "recv") /\ services # {} /\ filter[w].gen = generation
         /\ \A o \in Operators : op[o].at # "bump") =>
            \A f \in Frames \ Excluded : Wanted(f) =>
                /\ KernelPasses(filter[w], f)
                /\ frame_may_belong_to_service(f, services)

(* Once no request is in flight the registry is what the database holds,   *)
(* unless two requests overlapped: upsert and delete load, clone and store *)
(* without a lock.                                                         *)
RegistryFollowsDatabase ==
    (~overlapped /\ \A o \in Operators : OpIdle(o)) => services = database

(* The two directions of a connection have the same flow key, through tags *)
(* and tunnels, and are told apart unless their ends are the same          *)
(* (FlowKey::canonical_with_domain, mix_tunnel_domain).                    *)
Turned(l) ==
    LET a == IF "src" \in DOMAIN l THEN [l EXCEPT !.src = l.dst, !.dst = l.src] ELSE l
    IN  IF l.t \in {"tcp", "udp"} THEN [a EXCEPT !.sport = l.dport, !.dport = l.sport] ELSE a
Reversed(layers) == [i \in DOMAIN layers |-> Turned(layers[i])]
KeysSymmetric ==
    \A w \in Workers : WAt(w, "gate") =>
        LET r == decode(Start, worker[w].frame.layers).res
            s == decode(Start, Reversed(worker[w].frame.layers)).res
        IN  r.kind = "packet" /\ r.key.proto # "vxlan" =>
                /\ s.kind = "packet" /\ s.key = r.key
                /\ (\E a, b \in r.key.ends : a # b) => s.from # r.from

(* The fragment cache charges exactly what it holds and stays within its   *)
(* limits, through completion, rejection, expiry and eviction; no two      *)
(* stored fragments of a datagram overlap, and every completed datagram is *)
(* the positions 0, 1, 2, ... without hole or repetition.                  *)
FragmentsSound ==
    /\ CacheAccounted(cache) /\ CacheDisjoint(cache)
    /\ \A p \in reassembled : \A i \in DOMAIN p : p[i][1] = i - 1

(* Every packet counted for the topology is pending at a worker, in the    *)
(* table, in the overflow or went with a source's TTL: merging loses and   *)
(* doubles nothing, and a worker that ends hands over what it holds.       *)
TopologyConserved ==
    /\ observed = forgotten + topo.overflow + Packets(topo.sources, DOMAIN topo.sources)
                  + SumOf([w \in Workers |-> SumOf(pending[w])])
    /\ \A w \in Workers : WAt(w, "stopped") => pending[w] = <<>>

(* A service that stays configured is in the filter of every worker in the *)
(* end, unless the worker has stopped.                                     *)
ServicesGetSeen ==
    \A w \in Workers, p \in Ports :
        <>[](p \in services) =>
            <>[](WAt(w, "stopped") \/ filter[w].open \/ p \in filter[w].ports)
=============================================================================
