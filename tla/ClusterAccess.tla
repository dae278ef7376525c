---------------------------- MODULE ClusterAccess ----------------------------
(***************************************************************************)
(* How the ingress plane finds the API server and its credentials          *)
(* (openrusty-k8s/src/auth, client.rs).  Everything here is a function of  *)
(* the environment at start: the loaders are sequential and keep no state. *)
(* A file is abstracted to which of its parts are present and usable.      *)
(***************************************************************************)
EXTENDS Sequences, Naturals

CONSTANTS File, NoFile

ASSUME AccessAssumption == NoFile \notin File

(* A user block: every flavour it may declare.  "bad" is present but       *)
(* unusable (empty token, undecodable data, unreadable path).              *)
User == [token : {"none", "bad", "set"}, cert : {"none", "bad", "set"},
         key : {"none", "bad", "set"}, exec : {"none", "bad", "set"}, basic : BOOLEAN]

(* A kubeconfig: it parses, its current context leads to a cluster and a   *)
(* user, the server URL is absolute, and the CA is there.                  *)
Kubeconfig == [parses : BOOLEAN, linked : BOOLEAN, endpoint : BOOLEAN,
               ca : {"none", "bad", "set"}, user : User]

(* The mounted service account and the two service variables.              *)
Pod == [address : BOOLEAN, token : BOOLEAN, ca : BOOLEAN]

(* What load reads: the configured path, $KUBECONFIG (listSet says that it *)
(* is set and not blank, list holds its non-empty entries), $HOME, the     *)
(* files that exist, the pod.                                              *)
Environment ==
  [explicit : File \cup {NoFile}, listSet : BOOLEAN, list : Seq(File),
   home : File \cup {NoFile}, files : UNION {[S -> Kubeconfig] : S \in SUBSET File}, pod : Pod]

Failed == [ok |-> FALSE, source |-> "none", credential |-> "none"]

Loaded(source, credential) == [ok |-> TRUE, source |-> source, credential |-> credential]

Access == {Failed} \cup [ok : {TRUE}, source : {"file", "pod"},
                         credential : {"bearer", "cert", "exec", "badexec"}]

(* in_cluster::load: the token, the CA, then the endpoint; any may miss.   *)
LoadInCluster(pod) ==
  IF pod.token /\ pod.ca /\ pod.address THEN Loaded("pod", "bearer") ELSE Failed

Strict(env) == env.explicit # NoFile \/ env.listSet

(* The candidates of the source with the highest priority only.            *)
Candidates(env) ==
  CASE env.explicit # NoFile -> <<env.explicit>>
    [] env.explicit = NoFile /\ env.listSet -> env.list
    [] OTHER -> IF env.home = NoFile THEN <<>> ELSE <<env.home>>

(* parse_kubeconfig, resolve: current context, its cluster and its user.   *)
Resolves(k) == k.parses /\ k.linked

(* load_cluster: the endpoint and the CA; verification is never disabled.  *)
ClusterLoads(k) == k.endpoint /\ k.ca = "set"

(* client_cert_credentials: both halves, each decodable or readable.       *)
CertLoads(u) == u.cert = "set" /\ u.key = "set"

(* credentials_for_user: a token wins over a certificate over exec; a      *)
(* token that is there but empty is an error, not a miss.                  *)
CredentialOf(u) ==
  CASE u.token # "none" -> IF u.token = "set" THEN "bearer" ELSE "none"
    [] u.token = "none" /\ u.cert # "none" -> IF CertLoads(u) THEN "cert" ELSE "none"
    [] u.token = "none" /\ u.cert = "none" /\ u.exec # "none" ->
         IF u.exec = "set" THEN "exec" ELSE "badexec"
    [] OTHER -> "none"

LoadKubeconfigFile(k) ==
  IF Resolves(k) /\ ClusterLoads(k) /\ CredentialOf(k.user) # "none"
  THEN Loaded("file", CredentialOf(k.user))
  ELSE Failed

(* A mutation: a missing file always falls back to the service account.    *)
LoadFallingBack(env) ==
  LET present == {i \in 1..Len(Candidates(env)) : Candidates(env)[i] \in DOMAIN env.files}
      first == CHOOSE i \in present : \A j \in present : i <= j
  IN  IF present # {} THEN LoadKubeconfigFile(env.files[Candidates(env)[first]])
                      ELSE LoadInCluster(env.pod)

(* load: the first candidate that exists decides, whatever it holds.  The  *)
(* service account is used when there is no candidate, or when none exists *)
(* and the source was not named by the operator.                           *)
Load(env) ==
  LET present == {i \in 1..Len(Candidates(env)) : Candidates(env)[i] \in DOMAIN env.files}
      first == CHOOSE i \in present : \A j \in present : i <= j
  IN  CASE Candidates(env) = <<>> -> LoadInCluster(env.pod)
        [] Candidates(env) # <<>> /\ present # {} ->
             LoadKubeconfigFile(env.files[Candidates(env)[first]])
        [] OTHER -> IF Strict(env) THEN Failed ELSE LoadInCluster(env.pod)

(* exec::run: the plugin is spawned, exits with 0 and prints a token.      *)
ExecRun(credential) == credential = "exec"

(* bearer_header: the token must be a legal header value.                  *)
BearerHeader(credential, header) == credential # "cert" => header

(* build_tls_config: the CA parses, and so does a client certificate.      *)
TlsConfigBuilds(credential, ca, cert) == ca /\ (credential = "cert" => cert)

(* Client::new: an exec plugin runs once, here; its token is never renewed.*)
ClientBuilds(credential, header, ca, cert) ==
  /\ credential \in {"exec", "badexec"} => ExecRun(credential)
  /\ BearerHeader(credential, header)
  /\ TlsConfigBuilds(credential, ca, cert)
=============================================================================
