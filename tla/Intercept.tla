----------------------------- MODULE Intercept -----------------------------
(***************************************************************************)
(* One connection accepted by a transparent listener, from the recovered   *)
(* destination to the last byte: the loop guard, the protocol sniff under  *)
(* one deadline, the egress policy, and the tunnel or the HTTP pipeline    *)
(* that gets the sniffed bytes again.  Drain counts such connections; what *)
(* happens inside one is here.                                             *)
(***************************************************************************)
EXTENDS Naturals, Sequences, SequencesExt

CONSTANTS
  Streams,   \* what a client may send: sequences of characters
  Methods,   \* the request methods, as sequences
  H2Prefix,  \* the start of the HTTP/2 preface
  Dests,     \* the destinations clients aim at: [port : Nat]
  Gateway,   \* the egress gateway
  ListenPorts,  \* the ports of all listeners
  Cases,     \* [role, mode, gateway : the gateway's name resolved at boot]
  NoCase     \* before the connection exists

Chars == UNION {ToSet(s) : s \in Streams \cup Methods \cup {H2Prefix}}

ASSUME InterceptAssumption == Streams \cup Methods \cup {H2Prefix} \subseteq Seq(Chars)

VARIABLES
  case,     \* the listener's role and the egress policy
  pc,       \* where the connection's task stands
  dst,      \* the original destination, NoDst when it cannot be recovered
  stream,   \* what the client will have sent when it is done
  sent,     \* how much of it has arrived at our socket
  taken,    \* how much of that the task has read
  buf,      \* the sniffed bytes not yet given to whoever serves
  out,      \* the bytes given to whoever serves
  eof,      \* the client closed its side
  proto,    \* the verdict of the sniff: "none", "h1", "h2" or "opaque"
  late,     \* history: the deadline decided
  dialled   \* the addresses the task tried to connect to

tapVars == <<case, pc, dst, stream, sent, taken, buf, out, eof, proto, late, dialled>>

NoDst == [port |-> 0]

TapInit ==
  /\ case = NoCase /\ pc = "none" /\ dst = NoDst /\ stream = <<>>
  /\ sent = 0 /\ taken = 0 /\ buf = <<>> /\ out = <<>> /\ eof = FALSE
  /\ proto = "none" /\ late = FALSE /\ dialled = {}

(***************************************************************************)
(* route_pre, on the destination the kernel reports (or does not).         *)
(***************************************************************************)
RoutePre(c, d) ==
  IF d = NoDst THEN (IF c.role = "outbound" THEN "closed" ELSE "http")
  ELSE IF d.port \in ListenPorts THEN "closed"
  ELSE IF c.role = "outbound" THEN "egress"
  ELSE "sniff"

AcceptTap ==
  /\ pc = "none"
  /\ \E c \in Cases, d \in Dests \cup {NoDst}, s \in Streams :
       case' = c /\ dst' = d /\ stream' = s /\ pc' = RoutePre(c, d)
  /\ UNCHANGED <<sent, taken, buf, out, eof, proto, late, dialled>>

\* The client: its bytes arrive in pieces of any size, and it may stop anywhere.
Arrive ==
  /\ pc # "none" /\ ~eof
  /\ sent' \in sent + 1 .. Len(stream)
  /\ UNCHANGED <<case, pc, dst, stream, taken, buf, out, eof, proto, late, dialled>>

Close ==
  /\ pc # "none" /\ ~eof
  /\ eof' = TRUE
  /\ UNCHANGED <<case, pc, dst, stream, sent, taken, buf, out, proto, late, dialled>>

-----------------------------------------------------------------------------
(***************************************************************************)
(* classify: "none" while the bytes may still become a method or the       *)
(* preface.                                                                *)
(***************************************************************************)
Classify(b) ==
  IF IsPrefix(H2Prefix, b) THEN "h2"
  ELSE IF IsPrefix(b, H2Prefix) \/ (\E m \in Methods : IsPrefix(b, m)) THEN "none"
  ELSE IF \E m \in Methods : IsPrefix(m, b) /\ b[Len(m) + 1] = " " THEN "h1"
  ELSE "opaque"

(***************************************************************************)
(* The direct and the deny modes look at nothing; the gateway mode sniffs, *)
(* and decides again when it knows the protocol.                           *)
(***************************************************************************)
RouteEgress ==
  /\ pc = "egress"
  /\ pc' = CASE case.mode = "direct" -> "dial" [] case.mode = "deny" -> "closed" [] OTHER -> "sniff"
  /\ UNCHANGED <<case, dst, stream, sent, taken, buf, out, eof, proto, late, dialled>>

AfterSniff(p) ==
  IF case.role # "outbound" THEN (IF p = "opaque" THEN "dial" ELSE "http")
  ELSE IF p = "opaque" \/ dst.port = 443 \/ ~case.gateway THEN "closed"
  ELSE "gateway"

\* Mutation: the bytes already read are not kept.
DetectForgetful ==
  /\ pc = "sniff" /\ taken < sent
  /\ \E n \in taken + 1 .. sent :
       LET b == buf \o SubSeq(stream, taken + 1, n)
       IN  /\ taken' = n
           /\ buf' = IF Classify(b) = "opaque" THEN SubSeq(stream, taken + 1, n) ELSE b
           /\ proto' = Classify(b)
           /\ pc' = IF Classify(b) = "none" THEN pc ELSE AfterSniff(Classify(b))
  /\ UNCHANGED <<case, dst, stream, sent, out, eof, late, dialled>>

(***************************************************************************)
(* detect reads what has arrived and classifies it, until the verdict, the *)
(* deadline (which makes it opaque, with the bytes so far) or the end of   *)
(* the stream (which closes the connection).                               *)
(***************************************************************************)
Detect ==
  /\ pc = "sniff" /\ taken < sent
  /\ \E n \in taken + 1 .. sent :
       LET b == buf \o SubSeq(stream, taken + 1, n)
       IN  /\ taken' = n
           /\ buf' = b
           /\ proto' = Classify(b)
           /\ pc' = IF Classify(b) = "none" THEN pc ELSE AfterSniff(Classify(b))
  /\ UNCHANGED <<case, dst, stream, sent, out, eof, late, dialled>>

Deadline ==
  /\ pc = "sniff"
  /\ proto' = "opaque" /\ late' = TRUE
  /\ pc' = AfterSniff("opaque")
  /\ UNCHANGED <<case, dst, stream, sent, taken, buf, out, eof, dialled>>

SniffEof ==
  /\ pc = "sniff" /\ eof /\ taken = sent
  /\ pc' = "closed"
  /\ UNCHANGED <<case, dst, stream, sent, taken, buf, out, eof, proto, late, dialled>>

(***************************************************************************)
(* tunnel_to and forward_to_gateway: one connect each; a failure (for the  *)
(* gateway a timeout too) closes the intercepted connection.               *)
(***************************************************************************)
DialOrig ==
  /\ pc = "dial"
  /\ dialled' = dialled \cup {dst}
  /\ pc' \in {"tunnel", "closed"}
  /\ UNCHANGED <<case, dst, stream, sent, taken, buf, out, eof, proto, late>>

DialGateway ==
  /\ pc = "gateway"
  /\ dialled' = dialled \cup {Gateway}
  /\ pc' \in {"tunnel", "closed"}
  /\ UNCHANGED <<case, dst, stream, sent, taken, buf, out, eof, proto, late>>

(***************************************************************************)
(* PrefixedStream: the sniffed bytes first, in as many reads as the reader *)
(* makes of them, then the socket.                                         *)
(***************************************************************************)
Relay ==
  /\ pc \in {"tunnel", "http"}
  /\ \/ \E n \in 1..Len(buf) :
          /\ out' = out \o SubSeq(buf, 1, n)
          /\ buf' = SubSeq(buf, n + 1, Len(buf))
          /\ UNCHANGED taken
     \/ /\ buf = <<>>
        /\ \E n \in taken + 1 .. sent :
             /\ out' = out \o SubSeq(stream, taken + 1, n)
             /\ taken' = n
        /\ UNCHANGED buf
  /\ UNCHANGED <<case, pc, dst, stream, sent, eof, proto, late, dialled>>

FinishTap ==
  /\ pc \in {"tunnel", "http"} /\ eof /\ taken = sent /\ buf = <<>>
  /\ pc' = "finished"
  /\ UNCHANGED <<case, dst, stream, sent, taken, buf, out, eof, proto, late, dialled>>

TapNext ==
  \/ AcceptTap \/ Arrive \/ Close
  \/ RouteEgress \/ Detect \/ Deadline \/ SniffEof
  \/ DialOrig \/ DialGateway \/ Relay \/ FinishTap

TapSpec == TapInit /\ [][TapNext]_tapVars

-----------------------------------------------------------------------------
(***************************************************************************)
(* Whoever serves the connection has seen, in order, every byte that was   *)
(* read before, but for the sniffed ones still to come; a connection that  *)
(* finished has been seen to the end.                                      *)
(***************************************************************************)
BytesAreFaithful ==
  /\ out \o buf = SubSeq(stream, 1, taken)
  /\ pc = "finished" => out = SubSeq(stream, 1, sent)

(***************************************************************************)
(* The verdict is a function of the bytes, however they were cut into      *)
(* reads: what a longer read would have shown, unless the deadline spoke.  *)
(***************************************************************************)
VerdictIgnoresChunks ==
  proto # "none" /\ ~late => proto = Classify(SubSeq(stream, 1, sent))

(***************************************************************************)
(* No own port is dialled, nothing is dialled under deny, and under        *)
(* gateway nothing but the gateway, whatever failed or timed out.          *)
(***************************************************************************)
EgressIsClosed ==
  /\ \A d \in dialled : d = Gateway \/ d.port \notin ListenPorts
  /\ case.role = "outbound" /\ case.mode = "deny" => dialled = {}
  /\ case.role = "outbound" /\ case.mode = "gateway" => dialled \subseteq {Gateway}

(***************************************************************************)
(* An intercepted connection is relayed faithfully or not at all           *)
(* (transparent.rs handle_conn, detect.rs detect, egress.rs run_outbound). *)
(***************************************************************************)
InterceptIsFaithful == BytesAreFaithful /\ VerdictIgnoresChunks /\ EgressIsClosed
=============================================================================
