---------------------------- MODULE ClusterRender ----------------------------
(***************************************************************************)
(* Rendering of Ingress and Secret objects into routes, upstreams and TLS  *)
(* material (openrusty-k8s/src/render, model), their composition with the  *)
(* static configuration (ingress/mod.rs) and the SNI table                 *)
(* (tls/resolver.rs).  Objects are functions from keys <<namespace, name>> *)
(* to records; a namespace and a service name are the sequences of their   *)
(* dash-separated labels, which is all that names are compared by.  Lists  *)
(* of routes are sets of routes tagged with their origin, since only       *)
(* conflicts and membership matter to what follows.                        *)
(***************************************************************************)
EXTENDS Naturals, Sequences, FiniteSets

CONSTANTS Class,            \* the configured ingress class
          StaticRoutes,     \* routes of the configuration file
          StaticUpstreams,  \* upstream names of the configuration file
          Nothing           \* an absent optional field

(* The configuration names the upstreams of its routes (config.rs 464-469).*)
ASSUME RenderAssumption == \A r \in StaticRoutes : r.upstream \in StaticUpstreams

(* The objects, trimmed to what rendering reads.  A missing pathType is    *)
(* ImplementationSpecific, which is a prefix.  slash says that the path    *)
(* begins with one; pem is Nothing when a data key is missing, cannot be   *)
(* decoded or is blank.                                                    *)
IngressBackend(service, portKind, port) ==
  [service |-> service, portKind |-> portKind, port |-> port]

HttpIngressPath(host, path, slash, pathType, backend) ==
  [host |-> host, path |-> path, slash |-> slash, exact |-> pathType = "Exact",
   backend |-> backend]

IngressTls(hosts, secret) == [hosts |-> hosts, secret |-> secret]

IngressSpec(class, default, paths, tls) ==
  [class |-> class, default |-> default, paths |-> paths, tls |-> tls]

Secret(type, pem) == [type |-> type, pem |-> pem]

(* backend_target: a service with a numeric port; resource backends,       *)
(* missing and named ports are errors.                                     *)
BackendRenders(b) == b.service # Nothing /\ b.portKind = "number"

Owned(ings) == {k \in DOMAIN ings : ings[k].class = Class}

(* The backends of one Ingress: the default one and one per rule path.     *)
Backends(ing) ==
  {ing.paths[i].backend : i \in DOMAIN ing.paths}
    \cup IF ing.default = Nothing THEN {} ELSE {ing.default}

UpstreamName(ns, b) == <<"ing">> \o ns \o b.service \o <<b.port>>

(* What an upstream dials: the ClusterIP name of the service.              *)
Endpoint(ns, b) == <<b.service, ns, b.port>>

CatchAll == [host |-> Nothing, path |-> "/", exact |-> FALSE]

RouteKey(p) == [host |-> p.host, path |-> p.path, exact |-> p.exact]

Route(origin, key, ns, b) ==
  [origin |-> origin, key |-> key, upstream |-> UpstreamName(ns, b)]

RoutesRender(ings) ==
  \A k \in Owned(ings) :
     /\ \A b \in Backends(ings[k]) : BackendRenders(b)
     /\ \A i \in DOMAIN ings[k].paths : ings[k].paths[i].slash

RenderRoutes(ings) ==
  UNION {{Route(<<k, i>>, RouteKey(ings[k].paths[i]), k[1], ings[k].paths[i].backend) :
             i \in DOMAIN ings[k].paths}
         \cup (IF ings[k].default = Nothing THEN {}
               ELSE {Route(<<k, 0>>, CatchAll, k[1], ings[k].default)}) : k \in Owned(ings)}

(* One upstream per distinct target.                                       *)
RenderUpstreams(ings) ==
  UNION {{[name |-> UpstreamName(k[1], b), endpoint |-> Endpoint(k[1], b)] :
             b \in Backends(ings[k])} : k \in Owned(ings)}

(* The TLS sections of the owned Ingresses that name a secret.             *)
Sections(ings) ==
  UNION {{[key |-> <<k[1], ings[k].tls[i].secret>>, hosts |-> ings[k].tls[i].hosts] :
             i \in {j \in DOMAIN ings[k].tls : ings[k].tls[j].secret # Nothing}} : k \in Owned(ings)}

(* decode_tls_secret, decode_field: the right type, both keys, decodable   *)
(* and not empty.                                                          *)
SecretDecodes(s) == s.type = "tls" /\ s.pem # Nothing

(* A mutation: a secret that is missing drops its section silently.        *)
TlsRendersWithoutSecret(ings, secs) ==
  /\ \A t \in Sections(ings) : t.key \in DOMAIN secs => SecretDecodes(secs[t.key])
  /\ \A t, u \in {v \in Sections(ings) : v.key \in DOMAIN secs} :
        t.hosts \cap u.hosts # {} => secs[t.key].pem = secs[u.key].pem

(* Two sections may share a host only with the same material.              *)
TlsRenders(ings, secs) ==
  /\ \A t \in Sections(ings) : t.key \in DOMAIN secs /\ SecretDecodes(secs[t.key])
  /\ \A t, u \in Sections(ings) :
        t.hosts \cap u.hosts # {} => secs[t.key].pem = secs[u.key].pem

TlsHosts(ings, secs) == UNION {t.hosts : t \in {u \in Sections(ings) : u.key \in DOMAIN secs}}

RenderTls(ings, secs) ==
  [h \in TlsHosts(ings, secs) |->
     secs[(CHOOSE t \in Sections(ings) : h \in t.hosts /\ t.key \in DOMAIN secs).key].pem]

(* merge: a key claimed twice anywhere refuses the whole apply.            *)
Merges(routes) == \A r, s \in routes : r.key = s.key => r = s

(* build_ingress_config: a static upstream keeps its name.                 *)
BuildIngressConfig(ings) ==
  [routes |-> StaticRoutes \cup RenderRoutes(ings),
   upstreams |-> {[name |-> n, endpoint |-> <<n, <<>>, "any">>] : n \in StaticUpstreams}
                   \cup {u \in RenderUpstreams(ings) : u.name \notin StaticUpstreams}]

(* apply_pair's verdict on a pair before anything is published.            *)
Renders(ings, secs) ==
  /\ RoutesRender(ings)
  /\ TlsRenders(ings, secs)
  /\ Merges(StaticRoutes \cup RenderRoutes(ings))

(* certified_key: material that decodes may still be no certificate.       *)
Certified(pem) == pem # "unparsable"

(* update_from_tls_pairs: broken entries are skipped, the table replaced.  *)
UpdateFromTlsPairs(tls) == [h \in {g \in DOMAIN tls : Certified(tls[g])} |-> tls[h]]

(* lookup: the table, then the fallback; Nothing fails the handshake.      *)
Lookup(sni, fallback, host) == IF host \in DOMAIN sni THEN sni[host] ELSE fallback
=============================================================================
