--------------------------- MODULE RegistryProbe ---------------------------
(***************************************************************************)
(* The registry client of clydectl                                         *)
(* (src/tools/clydectl/internal/registry/client.go) as pure operators:    *)
(* how the image size and the probe layer of the monitored deploy path are *)
(* resolved from a registry descriptor.                                    *)
(*                                                                         *)
(* A layer is abstracted to its size and whether layer.Size() and         *)
(* layer.Digest() can be read; a layer is known by its position.  A       *)
(* manifest of an index is its platform ("none" for a nil Platform),      *)
(* whether its child can be fetched (remote.Get and Image both succeed)   *)
(* and the child's layers.  The blob URL scheme and the auth header are  *)
(* strings built from the reference and the keychain; they are left out.  *)
(*                                                                         *)
(* The comment of resolveImageFromIndex says linux/arm64 is preferred, but *)
(* for an index desc.Image() has already taken the linux/amd64 child when *)
(* there is one that can be fetched, so the passes only run without it.   *)
(***************************************************************************)
EXTENDS Naturals, Sequences, FiniteSetsExt

Readable(l) == l.sized

(* totalLayerSize: the sizes that can be read are summed, and an image     *)
(* with none is an error.                                                  *)
TotalLayerSize(ls) ==
  LET valid == {i \in DOMAIN ls : Readable(ls[i])} IN
  [ok |-> valid /= {}, size |-> MapThenSumSet(LAMBDA i : ls[i].size, valid)]

(* One iteration of largestLayer's loop: a layer whose size can be read    *)
(* and is strictly larger than maxSize, and whose digest can be read,      *)
(* becomes the largest so far.                                             *)
LargestStep(best, l, i) ==
  IF Readable(l) /\ l.size > best.size /\ l.digest
  THEN [idx |-> i, size |-> l.size] ELSE best

RECURSIVE ScanLargest(_, _, _)
ScanLargest(ls, i, best) ==
  IF i > Len(ls) THEN best ELSE ScanLargest(ls, i + 1, LargestStep(best, ls[i], i))

(* largestLayer: the scan starts from maxSize 0 and digest "", and an     *)
(* empty digest at the end is an error.                                    *)
LargestLayer(ls) ==
  LET r == ScanLargest(ls, 1, [idx |-> 0, size |-> 0]) IN
  [ok |-> r.idx /= 0, idx |-> r.idx, size |-> r.size]

(* The three passes of resolveImageFromIndex.                              *)
Want(pass, d) ==
  CASE pass = 1 -> d.platform = "linux/arm64"
    [] pass = 2 -> d.platform \in {"linux/arm64", "linux/amd64"}
    [] pass = 3 -> TRUE

Fetched(ms, pass) == {i \in DOMAIN ms : Want(pass, ms[i]) /\ ms[i].fetch}

(* resolveImageFromIndex: for each pass in turn, the first manifest in     *)
(* index order that the pass wants and whose child can be fetched; 0 for   *)
(* the error.                                                              *)
ResolveImageFromIndex(ms) ==
  LET hit == {pass \in 1..3 : Fetched(ms, pass) /= {}} IN
  IF hit = {} THEN 0 ELSE Min(Fetched(ms, Min(hit)))

NoImage == [ok |-> FALSE, layers |-> <<>>]

(* resolveImage: desc.Image() first.  For an index, go-containerregistry   *)
(* resolves it to the first child for its default platform, linux/amd64,   *)
(* and fails when there is none or it cannot be fetched; only then is the  *)
(* index walked by resolveImageFromIndex.                                  *)
ResolveImage(desc) ==
  LET ms == desc.manifests
      amd == {i \in DOMAIN ms : ms[i].platform = "linux/amd64"}
      i == ResolveImageFromIndex(ms)
  IN CASE ~desc.index -> [ok |-> TRUE, layers |-> desc.layers]
       [] amd /= {} /\ ms[Min(amd)].fetch -> [ok |-> TRUE, layers |-> ms[Min(amd)].layers]
       [] i /= 0 -> [ok |-> TRUE, layers |-> ms[i].layers]
       [] OTHER -> NoImage

(* ResolveImageSize and ResolveLayer: the descriptor is fetched, resolved *)
(* to an image, and its layers summed or scanned; any step may fail.       *)
ResolveImageSize(desc) ==
  IF desc.get /\ ResolveImage(desc).ok THEN TotalLayerSize(ResolveImage(desc).layers)
  ELSE [ok |-> FALSE, size |-> 0]

ResolveLayer(desc) ==
  IF desc.get /\ ResolveImage(desc).ok THEN LargestLayer(ResolveImage(desc).layers)
  ELSE [ok |-> FALSE, idx |-> 0, size |-> 0]

(* The monitored path of deploy.go: the target's size must resolve; the    *)
(* probe layer comes from --monitor-image (the target when unset) and,     *)
(* when that fails, from the target image.                                 *)
ProbeResolves(target, monitor) ==
  /\ ResolveImageSize(target).ok
  /\ ResolveLayer(monitor).ok \/ ResolveLayer(target).ok

(* A few registry answers for the deploy model: a plain image, a           *)
(* multi-arch index whose amd64 child fails, an index with nothing         *)
(* fetchable, an image with no readable layer, and an unreachable one.     *)
SampleImages ==
  { [get |-> TRUE, index |-> FALSE, manifests |-> <<>>,
     layers |-> <<[size |-> 2, sized |-> TRUE, digest |-> TRUE],
                 [size |-> 1, sized |-> TRUE, digest |-> TRUE]>>],
    [get |-> TRUE, index |-> TRUE, layers |-> <<>>,
     manifests |-> <<[platform |-> "linux/amd64", fetch |-> FALSE, layers |-> <<>>],
                     [platform |-> "linux/arm64", fetch |-> TRUE,
                      layers |-> <<[size |-> 1, sized |-> TRUE, digest |-> TRUE]>>]>>],
    [get |-> TRUE, index |-> TRUE, layers |-> <<>>,
     manifests |-> <<[platform |-> "windows/amd64", fetch |-> FALSE, layers |-> <<>>]>>],
    [get |-> TRUE, index |-> FALSE, manifests |-> <<>>,
     layers |-> <<[size |-> 1, sized |-> FALSE, digest |-> TRUE]>>],
    [get |-> FALSE, index |-> FALSE, manifests |-> <<>>, layers |-> <<>>] }

=============================================================================
