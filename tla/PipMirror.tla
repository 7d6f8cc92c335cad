----------------------------- MODULE PipMirror -----------------------------
(***************************************************************************)
(* The wheel handler (src/pkg/pip/pip.go) over a cluster of nodes that     *)
(* share one DHT and each keep a pip cache directory on disk.              *)
(*                                                                         *)
(* PipRegistryHandler serves a request from the cache file when os.Stat    *)
(* finds it; otherwise it resolves the key and calls forwardRequest on     *)
(* each provider in turn, and when none answers 200 with a full copy it    *)
(* falls back to the upstream index (serveFromFallback).  Both             *)
(* forwardRequest and the artifact fallback truncate the cache file with   *)
(* os.Create and tee the response into it while it streams to the client; *)
(* the index fallback reads the whole body, answers and writes the file.   *)
(* A forwarded request carries no sentinel: the peer runs the same        *)
(* handler, local check, resolve and all.                                  *)
(*                                                                         *)
(* The content of a cache file or a body segment is abstracted to what a  *)
(* client can tell apart: the whole package, a cut copy, the upstream's   *)
(* error page, or an http.Error text.                                     *)
(***************************************************************************)
EXTENDS Naturals, Sequences, FiniteSets, FiniteSetsExt

CONSTANTS
  Nodes,          \* clyde instances (model values)
  Keys,           \* pip keys: pip:<name> (model values)
  Indexes,        \* the keys of /simple/<pkg>/ indexes (the rest: .whl files)
  UpstreamHas,    \* the keys the FallbackIndex / files.pythonhosted.org serve
  NoNode,         \* placeholder for "no node"
  ResolveRetries, \* PipClient.ResolveRetries: providers asked for
  MaxRequests,    \* request records that may be live at once
  MaxOrigins,     \* pip client requests that may be live at once
  MaxFaults,      \* transport failures the network may inject in a run
  MaxCrashes,     \* process restarts in a run
  MaxEvictions    \* cache files removed by the operator in a run

ASSUME ResolveRetries \in Nat \ {0}
ASSUME MaxOrigins \in Nat \ {0} /\ MaxRequests >= MaxOrigins
ASSUME {MaxFaults, MaxCrashes, MaxEvictions} \subseteq Nat
ASSUME NoNode \notin Nodes /\ Indexes \subseteq Keys /\ UpstreamHas \subseteq Keys

VARIABLES
  file,       \* file[n][k]: the cache file of k in n's pip cache directory
  providers,  \* providers[k]: nodes with a live DHT provider record for k
  req,        \* req[i]: request record i (st = "free" when unused)
  faults,     \* transport failures injected so far
  crashes,    \* restarts so far
  evictions   \* evictions so far

vars == <<file, providers, req, faults, crashes, evictions>>

Ids == 1..MaxRequests

Content == {"whole", "cut", "errpage", "errtext"}
FileStates == {"none", "writing"} \cup Content

States == {"free", "recv", "mirror", "forward", "copy", "fallback", "tee", "done"}
Origins == {"none", "client", "orphan"}

Free == [st |-> "free", node |-> NoNode, key |-> CHOOSE k \in Keys : TRUE,
         origin |-> "none", parent |-> 0, depth |-> 0, cands |-> {},
         left |-> 0, open |-> FALSE, child |-> 0, status |-> 0,
         body |-> <<>>, up |-> <<>>]

FreeIds == {i \in Ids : req[i].st = "free"}
Live(i) == req[i].st /= "free"
Origin(i) == Live(i) /\ req[i].parent = 0 /\ req[i].origin = "client"

NewRequest(n, k, o, p, d) ==
  [Free EXCEPT !.st = "recv", !.node = n, !.key = k, !.origin = o,
               !.parent = p, !.depth = d]

(* http.ServeFile sends whatever the file holds when it is opened: a file *)
(* another request is still teeing into is sent cut short.                *)
ReadFile(f) == IF f = "writing" THEN "cut" ELSE f

(* The bytes a tee leaves in the cache file: the stream that was copied.  *)
FileOf(s) == IF Len(s) = 1 THEN s[1] ELSE "cut"

(* http.ResponseWriter: the first WriteHeader wins, later writes append.  *)
WriteHeader(r, code) == IF r.status = 0 THEN code ELSE r.status

(* What the upstream answers for k: the package, or 404 and an error page. *)
UpstreamStatus(k) == IF k \in UpstreamHas THEN 200 ELSE 404
UpstreamBody(k) == IF k \in UpstreamHas THEN "whole" ELSE "errpage"

Init ==
  /\ file \in [Nodes -> [Keys -> {"none", "whole"}]]
  /\ providers = [k \in Keys |-> {n \in Nodes : file[n][k] /= "none"}]
  /\ req = [i \in Ids |-> Free]
  /\ faults = 0 /\ crashes = 0 /\ evictions = 0

-----------------------------------------------------------------------------
(* pip on n asks its local proxy for k.                                    *)
ClientRequest(n, k) ==
  /\ Cardinality({i \in Ids : Origin(i)}) < MaxOrigins
  /\ FreeIds /= {}
  /\ req' = [req EXCEPT ![Min(FreeIds)] = NewRequest(n, k, "client", 0, 0)]
  /\ UNCHANGED <<file, providers, faults, crashes, evictions>>

(* PipRegistryHandler: os.Stat finds the cache file and http.ServeFile    *)
(* answers 200 with its bytes; on a miss the key is resolved with at most *)
(* ResolveRetries providers (the local provider store included).          *)
Receive(i) ==
  LET r == req[i]
      f == file[r.node][r.key]
  IN
  /\ r.st = "recv"
  /\ req' = [req EXCEPT ![i] =
       IF f /= "none"
         THEN [r EXCEPT !.st = "done", !.status = 200,
                        !.body = <<ReadFile(f)>>]
         ELSE [r EXCEPT !.st = "mirror", !.open = TRUE,
                        !.cands = providers[r.key], !.left = ResolveRetries]]
  /\ UNCHANGED <<file, providers, faults, crashes, evictions>>

(* The next provider from the resolve channel: forwardRequest sends the   *)
(* request, with the client's headers, to the peer's pip handler.         *)
NextPeer(i) ==
  LET r == req[i]
      j == Min(FreeIds \ {i})
  IN
  /\ r.st = "mirror" /\ r.open /\ r.left > 0
  /\ FreeIds /= {}
  /\ \E c \in r.cands :
       req' = [req EXCEPT
                 ![i] = [r EXCEPT !.st = "forward", !.child = j,
                                  !.cands = r.cands \ {c}, !.left = r.left - 1],
                 ![j] = NewRequest(c, r.key, "none", i, r.depth + 1)]
  /\ UNCHANGED <<file, providers, faults, crashes, evictions>>

(* The provider lookup ends or the ResolveTimeout deadline expires and    *)
(* the resolve goroutine closes the channel.                              *)
CloseStream(i) ==
  /\ req[i].st = "mirror" /\ req[i].open
  /\ req' = [req EXCEPT ![i].open = FALSE]
  /\ UNCHANGED <<file, providers, faults, crashes, evictions>>

(* The channel is drained: the handler falls back to upstream.            *)
Exhausted(i) ==
  /\ req[i].st = "mirror" /\ ~req[i].open
  /\ req' = [req EXCEPT ![i].st = "fallback"]
  /\ UNCHANGED <<file, providers, faults, crashes, evictions>>

(* forwardRequest reads the peer's answer.  A status other than 200 is    *)
(* discarded and the loop goes on; on 200 the header is written to the    *)
(* client and os.Create truncates the cache file before the tee starts.   *)
ForwardDone(i) ==
  LET r == req[i]
      c == req[r.child]
  IN
  /\ r.st = "forward" /\ c.st = "done"
  /\ \/ /\ c.status /= 200
        /\ req' = [req EXCEPT ![i] = [r EXCEPT !.st = "mirror", !.child = 0],
                              ![r.child] = Free]
        /\ UNCHANGED file
     \/ /\ c.status = 200
        /\ req' = [req EXCEPT ![i] = [r EXCEPT !.st = "copy", !.child = 0,
                                  !.status = WriteHeader(r, 200), !.up = c.body],
                              ![r.child] = Free]
        /\ file' = [file EXCEPT ![r.node][r.key] = "writing"]
  /\ UNCHANGED <<providers, faults, crashes, evictions>>

(* client.Do fails; the peer's handler runs on with nobody to answer.     *)
ForwardError(i) ==
  LET r == req[i] IN
  /\ r.st = "forward" /\ faults < MaxFaults
  /\ req' = [req EXCEPT ![i] = [r EXCEPT !.st = "mirror", !.child = 0],
                        ![r.child] = [req[r.child] EXCEPT !.parent = 0, !.origin = "orphan"]]
  /\ faults' = faults + 1
  /\ UNCHANGED <<file, providers, crashes, evictions>>

(* io.Copy through the tee completes: the peer's bytes are in the file,   *)
(* and the key is advertised before forwardRequest returns nil.           *)
CopyDone(i) ==
  LET r == req[i] IN
  /\ r.st = "copy"
  /\ req' = [req EXCEPT ![i] = [r EXCEPT !.st = "done", !.body = r.body \o r.up,
                                         !.up = <<>>]]
  /\ file' = [file EXCEPT ![r.node][r.key] = FileOf(r.up)]
  /\ providers' = [providers EXCEPT ![r.key] = @ \cup {r.node}]
  /\ UNCHANGED <<faults, crashes, evictions>>

(* The copy fails midway: the client and the file keep a cut copy, the    *)
(* error is returned and the loop tries the next provider.                *)
CopyFail(i) ==
  LET r == req[i] IN
  /\ r.st = "copy" /\ faults < MaxFaults
  /\ req' = [req EXCEPT ![i] = [r EXCEPT !.st = "mirror", !.up = <<>>,
                                         !.body = Append(r.body, "cut")]]
  /\ file' = [file EXCEPT ![r.node][r.key] = "cut"]
  /\ faults' = faults + 1
  /\ UNCHANGED <<providers, crashes, evictions>>

(* Mutant: a transport error to the upstream is answered 500.             *)
UpstreamUnreachable500(i) ==
  LET r == req[i] IN
  /\ r.st = "fallback" /\ faults < MaxFaults
  /\ req' = [req EXCEPT ![i] = [r EXCEPT !.st = "done",
               !.status = WriteHeader(r, 500), !.body = Append(r.body, "errtext")]]
  /\ faults' = faults + 1
  /\ UNCHANGED <<file, providers, crashes, evictions>>

(* serveFromFallback: client.Do to the upstream fails and is answered 502. *)
UpstreamUnreachable(i) ==
  LET r == req[i] IN
  /\ r.st = "fallback" /\ faults < MaxFaults
  /\ req' = [req EXCEPT ![i] = [r EXCEPT !.st = "done",
               !.status = WriteHeader(r, 502), !.body = Append(r.body, "errtext")]]
  /\ faults' = faults + 1
  /\ UNCHANGED <<file, providers, crashes, evictions>>

(* serveFromFallback: the upstream answers and its status is written,     *)
(* whatever it is.  An index body is read in full, written to the client, *)
(* cached with os.WriteFile and advertised by a goroutine; a read error   *)
(* is answered 500 after the header, which keeps the upstream status.     *)
(* A .whl artifact is teed into a file truncated by os.Create.            *)
UpstreamAnswer(i) ==
  LET r == req[i]
      k == r.key
      hdr == WriteHeader(r, UpstreamStatus(k))
  IN
  /\ r.st = "fallback"
  /\ \/ /\ k \in Indexes /\ faults < MaxFaults
        /\ req' = [req EXCEPT ![i] = [r EXCEPT !.st = "done", !.status = hdr,
                                              !.body = Append(r.body, "errtext")]]
        /\ faults' = faults + 1
        /\ UNCHANGED <<file, providers>>
     \/ /\ k \in Indexes
        /\ req' = [req EXCEPT ![i] = [r EXCEPT !.st = "done", !.status = hdr,
                                              !.body = Append(r.body, UpstreamBody(k))]]
        /\ file' = [file EXCEPT ![r.node][k] = UpstreamBody(k)]
        /\ providers' = [providers EXCEPT ![k] = @ \cup {r.node}]
        /\ UNCHANGED faults
     \/ /\ k \notin Indexes
        /\ req' = [req EXCEPT ![i] = [r EXCEPT !.st = "tee", !.status = hdr,
                                              !.up = <<UpstreamBody(k)>>]]
        /\ file' = [file EXCEPT ![r.node][k] = "writing"]
        /\ UNCHANGED <<faults, providers>>
  /\ UNCHANGED <<crashes, evictions>>

Fallback(i) == UpstreamUnreachable(i) \/ UpstreamAnswer(i)

(* The tee from upstream completes: the advertise goroutine is started.   *)
TeeDone(i) ==
  LET r == req[i] IN
  /\ r.st = "tee"
  /\ req' = [req EXCEPT ![i] = [r EXCEPT !.st = "done", !.body = r.body \o r.up,
                                         !.up = <<>>]]
  /\ file' = [file EXCEPT ![r.node][r.key] = FileOf(r.up)]
  /\ providers' = [providers EXCEPT ![r.key] = @ \cup {r.node}]
  /\ UNCHANGED <<faults, crashes, evictions>>

(* The tee from upstream fails: the handler returns with a cut file and   *)
(* a cut response, and advertises nothing.                                *)
TeeFail(i) ==
  LET r == req[i] IN
  /\ r.st = "tee" /\ faults < MaxFaults
  /\ req' = [req EXCEPT ![i] = [r EXCEPT !.st = "done", !.up = <<>>,
                                         !.body = Append(r.body, "cut")]]
  /\ file' = [file EXCEPT ![r.node][r.key] = "cut"]
  /\ faults' = faults + 1
  /\ UNCHANGED <<providers, crashes, evictions>>

(* The client reads the finished response; the record is released.        *)
Reply(i) ==
  /\ req[i].st = "done" /\ req[i].parent = 0
  /\ req' = [req EXCEPT ![i] = Free]
  /\ UNCHANGED <<file, providers, faults, crashes, evictions>>

-----------------------------------------------------------------------------
(* The rest of the node, as far as the pip handler sees it.                *)

(* The process on n dies and the DaemonSet restarts it.  Its requests are  *)
(* gone, a file it was teeing into stays on disk cut short, its forwarders *)
(* see a transport error and the peers it forwarded to run on as orphans.  *)
Crash(n) ==
  /\ crashes < MaxCrashes
  /\ file' = [file EXCEPT ![n] = [k \in Keys |-> ReadFile(@[k])]]
  /\ LET Drop(r) == IF r.st = "forward" /\ req[r.child].node = n
                      THEN [r EXCEPT !.st = "mirror", !.child = 0] ELSE r
         Orphan(r) == IF r.parent /= 0 /\ req[r.parent].node = n
                        THEN [r EXCEPT !.parent = 0, !.origin = "orphan"] ELSE r
     IN req' = [i \in Ids |-> IF req[i].node = n THEN Free
                                               ELSE Orphan(Drop(req[i]))]
  /\ crashes' = crashes + 1
  /\ UNCHANGED <<providers, faults, evictions>>

(* The operator or pip's own cache cleanup removes a cache file.  Nothing *)
(* withdraws the provider record.                                         *)
Evict(n, k) ==
  /\ evictions < MaxEvictions
  /\ file[n][k] \notin {"none", "writing"}
  /\ file' = [file EXCEPT ![n][k] = "none"]
  /\ evictions' = evictions + 1
  /\ UNCHANGED <<providers, req, faults, crashes>>

(* The tracker's syncPip publishes a key for every .whl file WalkPipDir   *)
(* finds, whatever the file holds.  An index is cached as <name>.html and *)
(* walked as pip:<name>.html, which is not the key requests resolve.      *)
SyncPip(n, k) ==
  /\ k \notin Indexes /\ file[n][k] /= "none" /\ n \notin providers[k]
  /\ providers' = [providers EXCEPT ![k] = @ \cup {n}]
  /\ UNCHANGED <<file, req, faults, crashes, evictions>>

(* A record nobody republishes expires after KeyTTL: an evicted file's,   *)
(* and any index's, since syncPip never republishes the index key.        *)
Expire(n, k) ==
  /\ n \in providers[k] /\ (file[n][k] = "none" \/ k \in Indexes)
  /\ providers' = [providers EXCEPT ![k] = @ \ {n}]
  /\ UNCHANGED <<file, req, faults, crashes, evictions>>

Handler(i) ==
  \/ Receive(i) \/ NextPeer(i) \/ CloseStream(i) \/ Exhausted(i)
  \/ ForwardDone(i) \/ ForwardError(i) \/ CopyDone(i) \/ CopyFail(i)
  \/ Fallback(i) \/ TeeDone(i) \/ TeeFail(i) \/ Reply(i)

Next ==
  \/ \E n \in Nodes, k \in Keys : ClientRequest(n, k)
  \/ \E i \in Ids : Handler(i)
  \/ \E n \in Nodes : Crash(n)
  \/ \E n \in Nodes, k \in Keys : Evict(n, k) \/ SyncPip(n, k) \/ Expire(n, k)

(* The steps of request i that need no fault: the handler goroutine runs, *)
(* the resolve channel is closed by the deadline at the latest, and a peer *)
(* or the upstream that does not fail answers.                             *)
Progress(i) ==
  \/ Receive(i) \/ NextPeer(i) \/ CloseStream(i) \/ Exhausted(i)
  \/ ForwardDone(i) \/ CopyDone(i) \/ Fallback(i) \/ TeeDone(i) \/ Reply(i)

(* Each request's handler goroutine is weakly fair.                        *)
Fairness == \A i \in Ids : WF_vars(Progress(i))

Spec == Init /\ [][Next]_vars /\ Fairness

-----------------------------------------------------------------------------
TypeOK ==
  /\ file \in [Nodes -> [Keys -> FileStates]]
  /\ providers \in [Keys -> SUBSET Nodes]
  /\ faults \in 0..MaxFaults /\ crashes \in 0..MaxCrashes
  /\ evictions \in 0..MaxEvictions
  /\ \A i \in Ids :
       /\ req[i].st \in States /\ req[i].origin \in Origins
       /\ req[i].node \in Nodes \cup {NoNode} /\ req[i].key \in Keys
       /\ req[i].parent \in 0..MaxRequests /\ req[i].child \in 0..MaxRequests
       /\ req[i].cands \subseteq Nodes /\ req[i].left \in 0..ResolveRetries
       /\ req[i].open \in BOOLEAN /\ req[i].depth \in Nat
       /\ req[i].status \in {0, 200, 404, 502}
       /\ req[i].body \in Seq(Content) /\ req[i].up \in Seq(Content)

(* Spec 4.2 mirror-sentinel invariant: a request forwarded to a peer is    *)
(* served by that peer and never forwarded again, so every pip request is  *)
(* at most one hop from the client's node.                                 *)
ChainBounded == \A i \in Ids : Live(i) => req[i].depth <= 1

(* Spec 1 (non-goals) and 8: no client is served an incomplete or          *)
(* partially cached file; a 200 from PipRegistryHandler carries the whole  *)
(* package and nothing else.                                               *)
IntactPackage ==
  \A i \in Ids :
    (Origin(i) /\ req[i].st = "done" /\ req[i].status = 200)
      => req[i].body = <<"whole">>

=============================================================================
