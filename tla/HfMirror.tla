------------------------------ MODULE HfMirror ------------------------------
(***************************************************************************)
(* The Hugging Face handler (src/pkg/hf/hf.go) over a cluster of nodes     *)
(* that share one DHT and each keep a hub cache directory of one model.    *)
(*                                                                         *)
(* HuggingFaceRegistryHandler serves a /resolve/ file from                 *)
(* snapshots/<refs/main>/<file> when it exists.  On a miss it uses the     *)
(* peers only for a GET of a file outside the small-file exclusions, and   *)
(* only when refs/main exists (otherwise cacheFilePath stays empty); it    *)
(* calls forwardRequest on each resolved provider in turn and falls back   *)
(* to the hub (serveFromFallback).  The handler never writes the cache:    *)
(* the consumer (huggingface_hub) stores what it downloaded.  A forwarded  *)
(* request carries no sentinel, so the peer runs the same handler.         *)
(*                                                                         *)
(* Only the `main` revision is modelled: the cache holds, per node, the    *)
(* files of the snapshot refs/main names.  Bodies are abstracted as in     *)
(* PipMirror: the whole file, a cut copy, the hub's error page, an         *)
(* http.Error text.                                                        *)
(***************************************************************************)
EXTENDS Naturals, Sequences, FiniteSets, FiniteSetsExt

CONSTANTS
  Nodes,          \* clyde instances (model values)
  Files,          \* files of the model's main snapshot (model values)
  Excluded,       \* excludeFiles: small metadata files never asked of peers
  UpstreamHas,    \* the files the hub serves (the rest answer 404)
  Asks,           \* <<file, method, kind>>: the requests consumers make
  NoNode,
  ResolveRetries, \* HFClient.ResolveRetries
  MaxRequests,    \* request records that may be live at once
  MaxOrigins,     \* consumer requests that may be live at once
  MaxFaults       \* transport failures the network may inject in a run

ASSUME ResolveRetries \in Nat \ {0}
ASSUME MaxOrigins \in Nat \ {0} /\ MaxRequests >= MaxOrigins /\ MaxFaults \in Nat
ASSUME NoNode \notin Nodes /\ Excluded \subseteq Files /\ UpstreamHas \subseteq Files
ASSUME Asks \subseteq Files \X {"GET", "HEAD"} \X {"resolve", "blob"}

VARIABLES
  cached,     \* cached[n]: files present under snapshots/<sha of main>
  hasRef,     \* hasRef[n]: refs/main exists in n's model directory
  providers,  \* providers[f]: nodes with a live provider record for hf:<path of f>
  pending,    \* <<n, f>>: advertise goroutines started and not yet run
  req,        \* req[i]: request record i (st = "free" when unused)
  faults

vars == <<cached, hasRef, providers, pending, req, faults>>

Ids == 1..MaxRequests
Methods == {"GET", "HEAD"}
Kinds == {"resolve", "blob"}
Content == {"whole", "cut", "errpage", "errtext"}
States == {"free", "recv", "mirror", "forward", "copy", "fallback", "stream", "done"}

Free == [st |-> "free", node |-> NoNode, file |-> CHOOSE f \in Files : TRUE,
         method |-> "GET", kind |-> "resolve", origin |-> FALSE, parent |-> 0,
         cands |-> {}, left |-> 0, open |-> FALSE, child |-> 0, status |-> 0,
         body |-> <<>>, up |-> <<>>]

FreeIds == {i \in Ids : req[i].st = "free"}
Live(i) == req[i].st /= "free"
Origin(i) == Live(i) /\ req[i].origin

NewRequest(n, f, m, kd, o, p) ==
  [Free EXCEPT !.st = "recv", !.node = n, !.file = f, !.method = m,
               !.kind = kd, !.origin = o, !.parent = p]

(* http.ResponseWriter: the first WriteHeader wins, later writes append.  *)
WriteHeader(r, code) == IF r.status = 0 THEN code ELSE r.status

(* A HEAD response carries no body.                                        *)
BodyFor(r, s) == IF r.method = "HEAD" THEN r.body ELSE r.body \o s

UpstreamStatus(f) == IF f \in UpstreamHas THEN 200 ELSE 404
UpstreamBody(f) == IF f \in UpstreamHas THEN "whole" ELSE "errpage"

Init ==
  /\ cached \in [Nodes -> SUBSET Files]
  /\ hasRef \in [Nodes -> BOOLEAN]
  /\ \A n \in Nodes : cached[n] /= {} => hasRef[n]
  /\ providers = [f \in Files |-> {}]
  /\ pending = {}
  /\ req = [i \in Ids |-> Free]
  /\ faults = 0

-----------------------------------------------------------------------------
(* huggingface_hub on n asks its local proxy for a file: a HEAD for the   *)
(* metadata and a GET of /resolve/main/<file>, or a /blobs/ path.         *)
ClientRequest(n, f, m, kd) ==
  /\ Cardinality({i \in Ids : Origin(i)}) < MaxOrigins
  /\ FreeIds /= {}
  /\ req' = [req EXCEPT ![Min(FreeIds)] = NewRequest(n, f, m, kd, TRUE, 0)]
  /\ UNCHANGED <<cached, hasRef, providers, pending, faults>>

(* The local lookup.  A /resolve/ hit is served with http.ServeFile.  A    *)
(* /blobs/ hit returns without writing anything, which net/http answers    *)
(* 200 with an empty body.  A miss goes to the peers only for a GET of a   *)
(* file outside excludeFiles when refs/main was read (cacheFilePath set);  *)
(* every other miss goes to the hub.                                       *)
Receive(i) ==
  LET r == req[i]
      hit == r.file \in cached[r.node]
      p2p == r.kind = "resolve" /\ hasRef[r.node] /\ r.method = "GET"
             /\ r.file \notin Excluded
  IN
  /\ r.st = "recv"
  /\ req' = [req EXCEPT ![i] =
       CASE hit /\ r.kind = "resolve" ->
              [r EXCEPT !.st = "done", !.status = 200, !.body = BodyFor(r, <<"whole">>)]
         [] hit /\ r.kind = "blob" -> [r EXCEPT !.st = "done", !.status = 200]
         [] ~hit /\ p2p ->
              [r EXCEPT !.st = "mirror", !.open = TRUE,
                        !.cands = providers[r.file], !.left = ResolveRetries]
         [] OTHER -> [r EXCEPT !.st = "fallback"]]
  /\ UNCHANGED <<cached, hasRef, providers, pending, faults>>

(* The next provider from the resolve channel (the node itself included): *)
(* forwardRequest sends a GET of the same path to the peer.               *)
NextPeer(i) ==
  LET r == req[i]
      j == Min(FreeIds \ {i})
  IN
  /\ r.st = "mirror" /\ r.open /\ r.left > 0
  /\ FreeIds /= {}
  /\ \E c \in r.cands :
       req' = [req EXCEPT
                 ![i] = [r EXCEPT !.st = "forward", !.child = j,
                                  !.cands = r.cands \ {c}, !.left = r.left - 1],
                 ![j] = NewRequest(c, r.file, "GET", "resolve", FALSE, i)]
  /\ UNCHANGED <<cached, hasRef, providers, pending, faults>>

(* The lookup ends or the ResolveTimeout deadline closes the channel.     *)
CloseStream(i) ==
  /\ req[i].st = "mirror" /\ req[i].open
  /\ req' = [req EXCEPT ![i].open = FALSE]
  /\ UNCHANGED <<cached, hasRef, providers, pending, faults>>

Exhausted(i) ==
  /\ req[i].st = "mirror" /\ ~req[i].open
  /\ req' = [req EXCEPT ![i].st = "fallback"]
  /\ UNCHANGED <<cached, hasRef, providers, pending, faults>>

(* forwardRequest reads the peer's answer.  A status other than 200 is    *)
(* discarded and the loop goes on; on 200 the header is written to the    *)
(* client and the body is copied.                                         *)
ForwardDone(i) ==
  LET r == req[i]
      c == req[r.child]
  IN
  /\ r.st = "forward" /\ c.st = "done"
  /\ req' = [req EXCEPT
               ![i] = IF c.status = 200
                        THEN [r EXCEPT !.st = "copy", !.child = 0,
                                       !.status = WriteHeader(r, 200), !.up = c.body]
                        ELSE [r EXCEPT !.st = "mirror", !.child = 0],
               ![r.child] = Free]
  /\ UNCHANGED <<cached, hasRef, providers, pending, faults>>

(* client.Do fails; the peer's handler runs on with nobody to answer.     *)
ForwardError(i) ==
  LET r == req[i] IN
  /\ r.st = "forward" /\ faults < MaxFaults
  /\ req' = [req EXCEPT ![i] = [r EXCEPT !.st = "mirror", !.child = 0],
                        ![r.child] = [req[r.child] EXCEPT !.parent = 0]]
  /\ faults' = faults + 1
  /\ UNCHANGED <<cached, hasRef, providers, pending>>

(* io.Copy completes; the key is advertised before forwardRequest         *)
(* returns nil (the Advertise error is only logged).                      *)
CopyDone(i) ==
  LET r == req[i] IN
  /\ r.st = "copy"
  /\ req' = [req EXCEPT ![i] = [r EXCEPT !.st = "done", !.body = BodyFor(r, r.up),
                                         !.up = <<>>]]
  /\ providers' = [providers EXCEPT ![r.file] = @ \cup {r.node}]
  /\ UNCHANGED <<cached, hasRef, pending, faults>>

(* The copy fails midway: the client holds a cut copy, the error is       *)
(* returned and the loop tries the next provider.                         *)
CopyFail(i) ==
  LET r == req[i] IN
  /\ r.st = "copy" /\ faults < MaxFaults
  /\ req' = [req EXCEPT ![i] = [r EXCEPT !.st = "mirror", !.up = <<>>,
                                         !.body = Append(r.body, "cut")]]
  /\ faults' = faults + 1
  /\ UNCHANGED <<cached, hasRef, providers, pending>>

(* Mutant: a transport error to the hub is answered 500.                  *)
UpstreamUnreachable500(i) ==
  LET r == req[i] IN
  /\ r.st = "fallback" /\ faults < MaxFaults
  /\ req' = [req EXCEPT ![i] = [r EXCEPT !.st = "done",
               !.status = WriteHeader(r, 500), !.body = BodyFor(r, <<"errtext">>)]]
  /\ faults' = faults + 1
  /\ UNCHANGED <<cached, hasRef, providers, pending>>

(* serveFromFallback: client.Do to the hub fails and is answered 502.     *)
UpstreamUnreachable(i) ==
  LET r == req[i] IN
  /\ r.st = "fallback" /\ faults < MaxFaults
  /\ req' = [req EXCEPT ![i] = [r EXCEPT !.st = "done",
               !.status = WriteHeader(r, 502), !.body = BodyFor(r, <<"errtext">>)]]
  /\ faults' = faults + 1
  /\ UNCHANGED <<cached, hasRef, providers, pending>>

(* The hub answers (redirects followed for GET) and its status is         *)
(* written, whatever it is: a HEAD ends there, a GET streams the body.    *)
UpstreamAnswer(i) ==
  LET r == req[i]
      hdr == WriteHeader(r, UpstreamStatus(r.file))
  IN
  /\ r.st = "fallback"
  /\ req' = [req EXCEPT ![i] =
       IF r.method = "HEAD" THEN [r EXCEPT !.st = "done", !.status = hdr]
       ELSE [r EXCEPT !.st = "stream", !.status = hdr,
                      !.up = <<UpstreamBody(r.file)>>]]
  /\ UNCHANGED <<cached, hasRef, providers, pending, faults>>

Fallback(i) == UpstreamUnreachable(i) \/ UpstreamAnswer(i)

(* io.Copy of the hub's body ends, completed or cut by an error; either    *)
(* way the advertise goroutine is started for the key.                     *)
StreamEnd(i, ok) ==
  LET r == req[i] IN
  /\ r.st = "stream"
  /\ req' = [req EXCEPT ![i] = [r EXCEPT !.st = "done", !.up = <<>>,
                 !.body = IF ok THEN r.body \o r.up ELSE Append(r.body, "cut")]]
  /\ pending' = pending \cup {<<r.node, r.file>>}
  /\ UNCHANGED <<cached, hasRef, providers>>

StreamDone(i) == StreamEnd(i, TRUE) /\ UNCHANGED faults

StreamFail(i) == faults < MaxFaults /\ StreamEnd(i, FALSE) /\ faults' = faults + 1

(* An advertise goroutine runs: n becomes a provider of f.                 *)
AdvertiseRuns(n, f) ==
  /\ <<n, f>> \in pending
  /\ pending' = pending \ {<<n, f>>}
  /\ providers' = [providers EXCEPT ![f] = @ \cup {n}]
  /\ UNCHANGED <<cached, hasRef, req, faults>>

(* The handler returns and the consumer reads the response.  For a        *)
(* resolve GET answered 200 with the whole file, huggingface_hub places    *)
(* it in the cache (blobs/, the snapshot link and refs/main).             *)
Reply(i) ==
  LET r == req[i] IN
  /\ r.st = "done" /\ r.parent = 0
  /\ req' = [req EXCEPT ![i] = Free]
  /\ IF r.origin /\ r.kind = "resolve" /\ r.method = "GET" /\ r.status = 200
        /\ r.body = <<"whole">>
     THEN /\ cached' = [cached EXCEPT ![r.node] = @ \cup {r.file}]
          /\ hasRef' = [hasRef EXCEPT ![r.node] = TRUE]
     ELSE UNCHANGED <<cached, hasRef>>
  /\ UNCHANGED <<providers, pending, faults>>

(* A provider record expires after KeyTTL.  The tracker's syncHF publishes *)
(* WalkHFCacheDir's keys, hf:/huggingface/<org>/<model>/resolve/<sha>/..., *)
(* never the resolve/main/... key requests resolve, so nothing renews it.  *)
Expire(n, f) ==
  /\ n \in providers[f]
  /\ providers' = [providers EXCEPT ![f] = @ \ {n}]
  /\ UNCHANGED <<cached, hasRef, pending, req, faults>>

Handler(i) ==
  \/ Receive(i) \/ NextPeer(i) \/ CloseStream(i) \/ Exhausted(i)
  \/ ForwardDone(i) \/ ForwardError(i) \/ CopyDone(i) \/ CopyFail(i)
  \/ Fallback(i) \/ StreamDone(i) \/ StreamFail(i) \/ Reply(i)

Next ==
  \/ \E n \in Nodes, a \in Asks : ClientRequest(n, a[1], a[2], a[3])
  \/ \E i \in Ids : Handler(i)
  \/ \E n \in Nodes, f \in Files : AdvertiseRuns(n, f) \/ Expire(n, f)

(* The steps of request i that need no fault.                              *)
Progress(i) ==
  \/ Receive(i) \/ NextPeer(i) \/ CloseStream(i) \/ Exhausted(i)
  \/ ForwardDone(i) \/ CopyDone(i) \/ Fallback(i) \/ StreamDone(i) \/ Reply(i)

(* Each request's handler goroutine is weakly fair.                        *)
Fairness == \A i \in Ids : WF_vars(Progress(i))

Spec == Init /\ [][Next]_vars /\ Fairness

-----------------------------------------------------------------------------
TypeOK ==
  /\ cached \in [Nodes -> SUBSET Files] /\ hasRef \in [Nodes -> BOOLEAN]
  /\ providers \in [Files -> SUBSET Nodes] /\ pending \subseteq Nodes \X Files
  /\ faults \in 0..MaxFaults
  /\ \A i \in Ids :
       /\ req[i].st \in States /\ req[i].node \in Nodes \cup {NoNode}
       /\ req[i].file \in Files /\ req[i].method \in Methods /\ req[i].kind \in Kinds
       /\ req[i].parent \in 0..MaxRequests /\ req[i].child \in 0..MaxRequests
       /\ req[i].cands \subseteq Nodes /\ req[i].left \in 0..ResolveRetries
       /\ req[i].status \in {0, 200, 404, 502}
       /\ req[i].body \in Seq(Content) /\ req[i].up \in Seq(Content)

=============================================================================
