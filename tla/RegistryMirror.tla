--------------------------- MODULE RegistryMirror ---------------------------
(***************************************************************************)
(* The container mirror path of the registry (src/pkg/registry/registry.go) *)
(* over a cluster of nodes that share one DHT.                             *)
(*                                                                         *)
(* A request enters registryHandler on some node.  Without the             *)
(* X-Spegel-Mirrored header it first sets that header on itself, then      *)
(* looks in the local content store; on a miss handleMirror asks the       *)
(* router for up to ResolveRetries providers of the key and forwards the   *)
(* request, header included, to each in turn (forwardRequest) until one    *)
(* answers 200 and its body has been copied.  A request that carries the   *)
(* header is served from the local store only.                             *)
(*                                                                         *)
(* Every forwarded request is itself a request record handled by the       *)
(* registry of the peer, so chains of registry-to-registry requests are    *)
(* explicit.  The state tracker's prefetch worker (state/blobs.go          *)
(* fetchBlob) is a second origin of requests: it sends X-Clyde-Mirrored,   *)
(* a header registryHandler does not look at.                              *)
(*                                                                         *)
(* Data is abstracted to one key per image component; a response body is   *)
(* the sequence of segments written to it, each naming the node whose      *)
(* store it came from and whether it was copied in full.                   *)
(***************************************************************************)
EXTENDS Naturals, Sequences, FiniteSets, FiniteSetsExt

CONSTANTS
  Nodes,          \* registry instances (model values)
  Keys,           \* content keys: tags or digests (model values)
  Blobs,          \* the keys that are blob digests (the rest are manifests)
  LatestTags,     \* the keys that are tags named "latest"
  ResolveLatestTag, \* RegistryConfig.ResolveLatestTag
  NoNode,         \* placeholder for "no node"
  ResolveRetries, \* RegistryConfig.ResolveRetries: providers asked for
  MaxRequests,    \* request records that may be live at once
  MaxOrigins,     \* client and prefetch requests that may be live at once
  MaxFaults,      \* transport failures the network may inject in a run
  MaxChurn,       \* pulls, deletes and DHT record changes in a run
  Prefetch        \* whether the tracker's prefetch worker sends requests

ASSUME ResolveRetries \in Nat \ {0}
ASSUME MaxOrigins \in Nat \ {0} /\ MaxRequests >= MaxOrigins
ASSUME MaxFaults \in Nat /\ MaxChurn \in Nat /\ Prefetch \in BOOLEAN
ASSUME NoNode \notin Nodes
ASSUME Blobs \subseteq Keys /\ LatestTags \subseteq Keys \ Blobs
ASSUME ResolveLatestTag \in BOOLEAN

VARIABLES
  store,      \* store[n]: keys the containerd content store of n holds
  providers,  \* providers[k]: nodes with a live DHT provider record for k
  req,        \* req[i]: request record i (st = "free" when unused)
  faults,     \* transport failures injected so far
  churn       \* environment changes so far

vars == <<store, providers, req, faults, churn>>

Ids == 1..MaxRequests

(* A body segment: content of the key from a node's store, copied in full  *)
(* or cut short; ErrText is the text WriteError appends.                   *)
Segment == [from : Nodes \cup {NoNode}, full : BOOLEAN]
ErrText == [from |-> NoNode, full |-> FALSE]

States == {"free", "recv", "serve", "mirror", "forward", "done"}
Origins == {"none", "client", "prefetch", "orphan"}

Free == [st |-> "free", node |-> NoNode, key |-> CHOOSE k \in Keys : TRUE,
         sentinel |-> FALSE, origin |-> "none", parent |-> 0, depth |-> 0,
         cands |-> {}, left |-> 0, open |-> FALSE, child |-> 0,
         status |-> 0, body |-> <<>>]

FreeIds == {i \in Ids : req[i].st = "free"}
Live(i) == req[i].st /= "free"
Origin(i) == Live(i) /\ req[i].parent = 0 /\ req[i].origin /= "orphan"

(* NewRequest(n, k, s, o, p, d): the record of a request arriving at the   *)
(* registry of n for key k, carrying the mirror header iff s.              *)
NewRequest(n, k, s, o, p, d) ==
  [Free EXCEPT !.st = "recv", !.node = n, !.key = k, !.sentinel = s,
               !.origin = o, !.parent = p, !.depth = d]

(* http.ResponseWriter: the first WriteHeader wins, later ones are         *)
(* ignored, and writes after it append to the body already sent.           *)
WriteHeader(r, code) == IF r.status = 0 THEN code ELSE r.status

(* The status handleManifest (Resolve/GetManifest fails) or handleBlob     *)
(* (Size fails) answers when the local store lacks k.                      *)
NotFound(k) == IF k \in Blobs THEN 500 ELSE 404

(* mux.ResponseWriter.WriteError: status (if none yet) and error text.     *)
WriteError(r, code) ==
  [r EXCEPT !.status = WriteHeader(r, code), !.body = Append(r.body, ErrText)]

Init ==
  /\ store \in [Nodes -> SUBSET Keys]
  /\ providers = [k \in Keys |-> {n \in Nodes : k \in store[n]}]
  /\ req = [i \in Ids |-> Free]
  /\ faults = 0
  /\ churn = 0

-----------------------------------------------------------------------------
(* Origins of requests.                                                    *)

(* containerd on n asks its local mirror (the registry) for k: for a tag   *)
(* it does so whatever its store holds; for a digest, when it lacks it.   *)
ClientRequest(n, k) ==
  /\ Cardinality({i \in Ids : Origin(i)}) < MaxOrigins
  /\ FreeIds /= {}
  /\ req' = [req EXCEPT ![Min(FreeIds)] = NewRequest(n, k, FALSE, "client", 0, 0)]
  /\ UNCHANGED <<store, providers, faults, churn>>

(* fetchBlob on n asks peer p, named by p's gossiped inventory, for k with *)
(* the X-Clyde-Mirrored header, which registryHandler does not recognise. *)
PrefetchRequest(n, p, k) ==
  /\ Prefetch
  /\ n /= p
  /\ k \notin store[n]
  /\ Cardinality({i \in Ids : Origin(i)}) < MaxOrigins
  /\ FreeIds /= {}
  /\ req' = [req EXCEPT ![Min(FreeIds)] = NewRequest(p, k, FALSE, "prefetch", 0, 1)]
  /\ UNCHANGED <<store, providers, faults, churn>>

-----------------------------------------------------------------------------
(* Mutant: the header is set only on the serve path, so handleMirror       *)
(* forwards the request without X-Spegel-Mirrored.                         *)
ReceiveWithoutSentinel(i) ==
  LET r == req[i] IN
  /\ r.st = "recv"
  /\ req' = [req EXCEPT ![i] =
       CASE r.sentinel \/ r.key \in store[r.node] ->
              [r EXCEPT !.sentinel = TRUE, !.st = "serve"]
         [] ~ResolveLatestTag /\ r.key \in LatestTags ->
              [r EXCEPT !.st = "done", !.status = 404]
         [] OTHER ->
              [r EXCEPT !.st = "mirror", !.open = TRUE,
                        !.cands = providers[r.key], !.left = ResolveRetries]]
  /\ UNCHANGED <<store, providers, faults, churn>>

(* registryHandler: a request without the mirror header sets it, then      *)
(* checks the local store (Resolve or Size) and mirrors on a miss; a      *)
(* request with the header goes straight to the local handlers.            *)
Receive(i) ==
  LET r == req[i] IN
  /\ r.st = "recv"
  /\ req' = [req EXCEPT ![i] =
       CASE r.sentinel \/ r.key \in store[r.node] ->
              [r EXCEPT !.sentinel = TRUE, !.st = "serve"]
         [] ~ResolveLatestTag /\ r.key \in LatestTags ->
              \* handleMirror: latest tags are not mirrored, bare 404
              [r EXCEPT !.sentinel = TRUE, !.st = "done", !.status = 404]
         [] OTHER ->
              [r EXCEPT !.sentinel = TRUE, !.st = "mirror", !.open = TRUE,
                        !.cands = providers[r.key], !.left = ResolveRetries]]
  /\ UNCHANGED <<store, providers, faults, churn>>

(* handleManifest / handleBlob: read the store again and answer with the   *)
(* content, or with an error status when it has gone in the meantime.      *)
ServeLocal(i) ==
  LET r == req[i] IN
  /\ r.st = "serve"
  /\ req' = [req EXCEPT ![i] =
               IF r.key \in store[r.node]
                 THEN [r EXCEPT !.st = "done", !.status = WriteHeader(r, 200),
                                !.body = Append(r.body, [from |-> r.node, full |-> TRUE])]
                 ELSE [WriteError(r, NotFound(r.key)) EXCEPT !.st = "done"]]
  /\ UNCHANGED <<store, providers, faults, churn>>

(* Mutant: the provider stream is not limited to ResolveRetries peers.     *)
NextPeerUnbounded(i) ==
  LET r == req[i]
      j == Min(FreeIds \ {i})
  IN
  /\ r.st = "mirror" /\ r.open
  /\ FreeIds /= {}
  /\ \E c \in r.cands :
       req' = [req EXCEPT
                 ![i] = [r EXCEPT !.st = "forward", !.child = j,
                                  !.cands = r.cands \ {c}, !.left = r.left - 1],
                 ![j] = NewRequest(c, r.key, r.sentinel, "none", i, r.depth + 1)]
  /\ UNCHANGED <<store, providers, faults, churn>>

(* handleMirror receives the next provider from the resolve channel and   *)
(* forwardRequest sends it the request with the same headers.  The router *)
(* yields at most ResolveRetries providers (FindProvidersAsync count).    *)
NextPeer(i) ==
  LET r == req[i]
      j == Min(FreeIds \ {i})
  IN
  /\ r.st = "mirror" /\ r.open /\ r.left > 0
  /\ FreeIds /= {}
  /\ \E c \in r.cands :
       req' = [req EXCEPT
                 ![i] = [r EXCEPT !.st = "forward", !.child = j,
                                  !.cands = r.cands \ {c}, !.left = r.left - 1],
                 ![j] = NewRequest(c, r.key, r.sentinel, "none", i, r.depth + 1)]
  /\ UNCHANGED <<store, providers, faults, churn>>

(* The resolve goroutine closes the channel when the provider lookup ends *)
(* or the ResolveTimeout deadline (20ms) expires, whichever is first.      *)
CloseStream(i) ==
  /\ req[i].st = "mirror" /\ req[i].open
  /\ req' = [req EXCEPT ![i].open = FALSE]
  /\ UNCHANGED <<store, providers, faults, churn>>

(* The channel is closed and drained: 404 "could not be found".            *)
Exhausted(i) ==
  /\ req[i].st = "mirror" /\ ~req[i].open
  /\ req' = [req EXCEPT ![i] = [WriteError(req[i], 404) EXCEPT !.st = "done"]]
  /\ UNCHANGED <<store, providers, faults, churn>>

(* forwardRequest gets the peer's answer.  A status other than 200/206 is  *)
(* an error and handleMirror continues with the next provider.  On 200 the *)
(* headers are copied and written, then the body is copied with the pooled *)
(* buffer; a copy error is returned after the header and part of the body  *)
(* have been sent, and handleMirror continues as for any other error.      *)
ForwardDone(i) ==
  LET r == req[i]
      c == req[r.child]
  IN
  /\ r.st = "forward"
  /\ c.st = "done"
  /\ \/ /\ c.status /= 200
        /\ req' = [req EXCEPT ![i] = [r EXCEPT !.st = "mirror", !.child = 0],
                              ![r.child] = Free]
        /\ UNCHANGED faults
     \/ /\ c.status = 200
        /\ req' = [req EXCEPT ![i] = [r EXCEPT !.st = "done", !.child = 0,
                                  !.status = WriteHeader(r, 200),
                                  !.body = r.body \o c.body],
                              ![r.child] = Free]
        /\ UNCHANGED faults
     \/ /\ c.status = 200
        /\ faults < MaxFaults
        /\ req' = [req EXCEPT ![i] = [r EXCEPT !.st = "mirror", !.child = 0,
                                  !.status = WriteHeader(r, 200),
                                  !.body = Append(r.body,
                                             [from |-> c.body[1].from, full |-> FALSE])],
                              ![r.child] = Free]
        /\ faults' = faults + 1
  /\ UNCHANGED <<store, providers, churn>>

(* client.Do fails (connection refused or reset) while the peer is still  *)
(* handling the request; the peer's handler runs on with nobody to answer.*)
ForwardError(i) ==
  LET r == req[i] IN
  /\ r.st = "forward"
  /\ faults < MaxFaults
  /\ req' = [req EXCEPT ![i] = [r EXCEPT !.st = "mirror", !.child = 0],
                        ![r.child] = [req[r.child] EXCEPT !.parent = 0, !.origin = "orphan"]]
  /\ faults' = faults + 1
  /\ UNCHANGED <<store, providers, churn>>

(* The request's context ends (the client gave up or its connection       *)
(* broke) while handleMirror waits on the channel: 404 "cancelled".        *)
Cancel(i) ==
  /\ req[i].st = "mirror"
  /\ faults < MaxFaults
  /\ req' = [req EXCEPT ![i] = [WriteError(req[i], 404) EXCEPT !.st = "done"]]
  /\ faults' = faults + 1
  /\ UNCHANGED <<store, providers, churn>>

(* The client reads the finished response; the record is released.         *)
Reply(i) ==
  /\ req[i].st = "done" /\ req[i].parent = 0
  /\ req' = [req EXCEPT ![i] = Free]
  /\ UNCHANGED <<store, providers, faults, churn>>

-----------------------------------------------------------------------------
(* The rest of the node, as far as the mirror path sees it.                *)

(* containerd pulls k from upstream (or a later mirror tier).              *)
Pull(n, k) ==
  /\ churn < MaxChurn /\ k \notin store[n]
  /\ store' = [store EXCEPT ![n] = @ \cup {k}]
  /\ churn' = churn + 1
  /\ UNCHANGED <<providers, req, faults>>

(* The image is deleted or garbage-collected.  update() handles a delete  *)
(* event by returning early: no record is withdrawn.                       *)
Delete(n, k) ==
  /\ churn < MaxChurn /\ k \in store[n]
  /\ store' = [store EXCEPT ![n] = @ \ {k}]
  /\ churn' = churn + 1
  /\ UNCHANGED <<providers, req, faults>>

(* The tracker's update() publishes a provider record for held content.    *)
Advertise(n, k) ==
  /\ churn < MaxChurn /\ k \in store[n] /\ n \notin providers[k]
  /\ providers' = [providers EXCEPT ![k] = @ \cup {n}]
  /\ churn' = churn + 1
  /\ UNCHANGED <<store, req, faults>>

(* A record nobody republishes expires after KeyTTL.                       *)
Expire(n, k) ==
  /\ churn < MaxChurn /\ n \in providers[k] /\ k \notin store[n]
  /\ providers' = [providers EXCEPT ![k] = @ \ {n}]
  /\ churn' = churn + 1
  /\ UNCHANGED <<store, req, faults>>

Next ==
  \/ \E n \in Nodes, k \in Keys : ClientRequest(n, k)
  \/ \E n, p \in Nodes, k \in Keys : PrefetchRequest(n, p, k)
  \/ \E i \in Ids : \/ Receive(i) \/ ServeLocal(i) \/ NextPeer(i)
                    \/ CloseStream(i) \/ Exhausted(i) \/ ForwardDone(i)
                    \/ ForwardError(i) \/ Cancel(i) \/ Reply(i)
  \/ \E n \in Nodes, k \in Keys : Pull(n, k) \/ Delete(n, k)
                                  \/ Advertise(n, k) \/ Expire(n, k)

Spec == Init /\ [][Next]_vars

-----------------------------------------------------------------------------
TypeOK ==
  /\ store \in [Nodes -> SUBSET Keys]
  /\ providers \in [Keys -> SUBSET Nodes]
  /\ faults \in 0..MaxFaults /\ churn \in 0..MaxChurn
  /\ \A i \in Ids :
       /\ req[i].st \in States /\ req[i].origin \in Origins
       /\ req[i].node \in Nodes \cup {NoNode} /\ req[i].key \in Keys
       /\ req[i].sentinel \in BOOLEAN /\ req[i].open \in BOOLEAN
       /\ req[i].parent \in 0..MaxRequests /\ req[i].child \in 0..MaxRequests
       /\ req[i].cands \subseteq Nodes /\ req[i].left \in 0..ResolveRetries
       /\ req[i].depth \in Nat /\ req[i].status \in {0, 200, 404, 500}
       /\ req[i].body \in Seq(Segment)

(* Mirror-sentinel invariant (spec 4.2): handleMirror sets X-Spegel-Mirrored *)
(* on the request before forwarding it, so the peer serves from its store  *)
(* and never mirrors again.  Even for a prefetch, which arrives without    *)
(* the header, no request is ever more than two registry hops away from    *)
(* the node whose client or tracker started the chain.                     *)
MirrorChainBounded == \A i \in Ids : Live(i) => req[i].depth <= 2

(* A client that receives 200 from handleMirror receives the content of   *)
(* exactly one peer, copied in full (spec 4.2 steps 3-4: streams from the  *)
(* first peer that answers, sequential failover before any byte is sent).  *)
ResponseIntegrity ==
  \A i \in Ids :
    (req[i].st = "done" /\ req[i].origin = "client" /\ req[i].status = 200)
      => \E n \in Nodes : req[i].body = <<[from |-> n, full |-> TRUE]>>

=============================================================================
