--------------------------- MODULE MCIngressWatch ---------------------------
(* Constants of IngressWatch for TLC. *)
EXTENDS IngressWatch, TLC

CONSTANTS f1, f2

MCFile == {f1, f2}
MCNamespace == {<<"a">>, <<"b">>}
Svc == IngressBackend(<<"s">>, "number", "80")
At1(path) == HttpIngressPath("h", path, TRUE, "Prefix", Svc)
Web == IngressSpec("own", Nothing, <<At1("/w")>>, <<IngressTls({"h"}, "x")>>)
Plain == IngressSpec("own", Svc, <<At1("/w")>>, <<>>)
\* What changes, changes in the first namespace.
MCContents ==
  <<"ingress", <<"a">>>> :> {<<>>, "i" :> Web, "i" :> Plain}
  @@ <<"secret", <<"a">>>> :> {"x" :> Secret("tls", "p1"), "x" :> Secret("tls", "unparsable")}
  @@ <<"ingress", <<"b">>>> :> {"i" :> Web}
  @@ <<"secret", <<"b">>>> :> {"x" :> Secret("tls", "p1")}
MCStaticRoutes == {[origin |-> <<<<<<"static">>, "toml">>, 1>>, key |-> RouteKey(At1("/static")), upstream |-> <<"up">>]}
MCStaticUpstreams == {<<"up">>}
MCFileRuntimes == {[routes |-> {}, upstreams |-> {}]}
MCCluster == [l \in Loop |-> IF l[1] = "ingress" THEN "i" :> Web ELSE "x" :> Secret("tls", "p1")]
Start(refused, tls, changes, faults, reloads) ==
  [cluster |-> MCCluster, denied |-> refused, resolver |-> tls,
   changes |-> changes, faults |-> faults, reloads |-> reloads]
OneNamespace == Kind \X {<<"b">>}
NoSecrets == {"secret"} \X MCNamespace

\* All four loops while the cluster is quiet; the two of one namespace with a
\* change and a fault, or without a resolver and with a reload; those of the
\* Ingresses of two namespaces with a change and a reload, or with a fault.
MCStarts ==
  {Start({}, TRUE, 0, 0, 0),
   Start(OneNamespace, TRUE, 1, 1, 0), Start(OneNamespace, FALSE, 0, 0, 1),
   Start(NoSecrets, TRUE, 1, 0, 1), Start(NoSecrets, TRUE, 0, 1, 0)}

\* One namespace and an API server that answers everything.
MCFaultless == {Start(OneNamespace, TRUE, 1, 0, 0)}

GoodUser == [token |-> "set", cert |-> "none", key |-> "none", exec |-> "none", basic |-> FALSE]
Good(u) == [parses |-> TRUE, linked |-> TRUE, endpoint |-> TRUE, ca |-> "set", user |-> u]
Users == {GoodUser, [GoodUser EXCEPT !.token = "bad"]}
         \cup {[GoodUser EXCEPT !.token = "none", !.cert = c, !.key = k, !.exec = e] :
                 c \in {"none", "set"}, k \in {"none", "set"}, e \in {"none", "bad", "set"}}
Configs == {Good(u) : u \in Users} \cup {[Good(GoodUser) EXCEPT !.linked = FALSE],
             [Good(GoodUser) EXCEPT !.ca = "none"]}
MCEnvironments ==
  [explicit : {f1, NoFile}, listSet : {TRUE}, list : {<<f2, f1>>, <<>>}, home : {NoFile, f2},
   files : UNION {[S -> {Good(GoodUser)}] : S \in SUBSET MCFile},
   pod : {[address |-> TRUE, token |-> TRUE, ca |-> TRUE]}]
  \cup [explicit : {f1, NoFile}, listSet : {FALSE}, list : {<<>>}, home : {NoFile, f1},
        files : {<<>>} \cup {f1 :> c : c \in Configs},
        pod : {[address |-> TRUE, token |-> t, ca |-> TRUE] : t \in BOOLEAN}]
=============================================================================
