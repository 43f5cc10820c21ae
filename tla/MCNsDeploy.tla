----------------------------- MODULE MCNsDeploy -----------------------------
(* Instances of NsDeploy for TLC. *)
EXTENDS NsDeploy

\* Charms of a VNF, of its VDU and of the NS, related.
LxcCharms ==
    [level |-> <<"VNF", "VDU", "NS">>, type |-> <<"lxc", "lxc", "lxc">>,
     initial |-> {1, 2, 3}, terminate |-> {1, 2}, peers |-> {{1, 2}, {2, 3}}]
\* Native charms of a VNF and its VDU, and a charm of the NS in Kubernetes.
NativeCharms ==
    [level |-> <<"VNF", "VDU", "NS">>, type |-> <<"native", "native", "k8s">>,
     initial |-> {1, 2, 3}, terminate |-> {}, peers |-> {{1, 2}, {2, 3}}]
\* Helm environments of a KDU, of a VDU and of the NS.
HelmCharts ==
    [level |-> <<"KDU", "VDU", "NS">>, type |-> <<"helm", "helm", "helm">>,
     initial |-> {1, 3}, terminate |-> {1}, peers |-> {}]
\* Charms in Kubernetes; that of the NS has terminate primitives.
NsPrimitives ==
    [level |-> <<"VNF", "VDU", "NS">>, type |-> <<"k8s", "k8s", "k8s">>,
     initial |-> {1, 3}, terminate |-> {3}, peers |-> {{1, 2}, {2, 3}}]
\* Two charms of the NS in Kubernetes.
NsCharms ==
    [level |-> <<"VNF", "NS", "NS">>, type |-> <<"k8s", "k8s", "k8s">>,
     initial |-> {2, 3}, terminate |-> {3}, peers |-> {{1, 2}, {1, 3}}]
Uniform == {LxcCharms, NativeCharms, HelmCharts, NsPrimitives, NsCharms}

\* A helm chart beside a charm.
MixedCharts ==
    [level |-> <<"VDU", "NS">>, type |-> <<"helm", "lxc">>,
     initial |-> {1, 2}, terminate |-> {}, peers |-> {}]
Mixed == {MixedCharts}
=============================================================================
