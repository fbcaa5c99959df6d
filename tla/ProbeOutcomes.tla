--------------------------- MODULE ProbeOutcomes ---------------------------
(***************************************************************************)
(* The results of the five network probes of src/bhola_network.py.         *)
(*                                                                         *)
(* A probe runs one command or one HTTPS request and classifies what came  *)
(* back as a ProbeOutcome.  What came back is the input here: an exit of   *)
(* the command ("timeout" and "oserror" are the two exceptions the code    *)
(* catches) or the way a request ended.  The measured numbers are          *)
(* abstracted to an element of Reading; NoReading stands for an empty      *)
(* "values" dictionary.                                                    *)
(***************************************************************************)
EXTENDS Integers

CONSTANTS Reading,      \* what a successful probe may have measured
          NoReading     \* an empty dictionary of values

ASSUME ReadingAssumption == NoReading \notin Reading

Status == {"ok", "degraded", "error", "unknown"}

SourceState == {"fresh", "timeout", "unavailable", "unreachable",
                "parse_error", "no_route", "no_gateway", "resolver_error",
                "http_error", "connection_error", "invalid_response", "error"}

Confidence == {"low", "medium", "high"}

ProbeOutcome == [status : Status, source_state : SourceState,
                 confidence : Confidence, success : BOOLEAN,
                 values : Reading \cup {NoReading}]

Outcome(status, source, confidence, success, values) ==
    [status |-> status, source_state |-> source, confidence |-> confidence,
     success |-> success, values |-> values]

Failed(status, source, confidence) ==
    Outcome(status, source, confidence, FALSE, NoReading)

-----------------------------------------------------------------------------
(* ping: the exit of the command, and the percentage of lost packets its   *)
(* output reports (NoLoss: the output matches no loss pattern).            *)

Exit == {"timeout", "oserror", "zero", "nonzero"}
NoLoss == 101
Loss == {0, 50, 100, NoLoss}

ProbePing(exit, loss, r) ==
    CASE exit = "timeout" -> Failed("unknown", "timeout", "low")
      [] exit = "oserror" -> Failed("unknown", "unavailable", "low")
      [] exit \in {"zero", "nonzero"} /\ loss = NoLoss ->
            IF exit = "nonzero" THEN Failed("error", "unreachable", "medium")
                                ELSE Failed("unknown", "parse_error", "medium")
      [] exit \in {"zero", "nonzero"} /\ loss = 100 ->
            Outcome("error", "unreachable", "high", FALSE, r)
      [] OTHER ->
            Outcome(IF loss = 0 THEN "ok" ELSE "degraded",
                    "fresh", "high", TRUE, r)

(* The gateway probe first reads the default route, then pings the gateway *)
(* and drops the measured values.                                          *)
Route == {"absent", "no_gateway", "gateway"}

ProbeGateway(route, exit, loss, r) ==
    CASE route = "absent"     -> Failed("error", "no_route", "high")
      [] route = "no_gateway" -> Failed("unknown", "no_gateway", "medium")
      [] route = "gateway"    ->
            [ProbePing(exit, loss, r) EXCEPT !.values = NoReading]

ProbeDns(exit, resolved, r) ==
    CASE exit = "timeout" -> Failed("unknown", "timeout", "low")
      [] exit = "oserror" -> Failed("unknown", "unavailable", "low")
      [] exit = "zero" /\ resolved -> Outcome("ok", "fresh", "high", TRUE, r)
      [] OTHER -> Failed("error", "resolver_error", "high")

-----------------------------------------------------------------------------
(* HTTPS: a request ends with a response, with an HTTPError that carries a *)
(* status code, with a time-out, or with another connection error.  urllib *)
(* answers only with 2xx codes: it follows redirects and raises HTTPError  *)
(* for the rest, with the 3xx code itself when redirects form a loop.      *)

Code == {200, 302, 404, 503}
RequestEnd == {"response", "http_error", "timeout", "connection_error"}

ParseHttpsStatus(code) ==
    IF 200 <= code /\ code < 400 THEN "ok"
    ELSE IF 400 <= code /\ code < 500 THEN "degraded" ELSE "error"

ProbeHttps(end, code) ==
    CASE end = "timeout" -> Failed("unknown", "timeout", "low")
      [] end = "http_error" ->
            Failed(ParseHttpsStatus(code), "http_error", "high")
      [] end = "connection_error" ->
            Failed("error", "connection_error", "medium")
      [] end = "response" ->
            Outcome(ParseHttpsStatus(code), "fresh", "high",
                    ParseHttpsStatus(code) = "ok", NoReading)

(* An HTTPError is a URLError: this probe reports it as connection_error.  *)
ProbePublicIp(end, valid, r) ==
    CASE end = "timeout" -> Failed("unknown", "timeout", "low")
      [] end \in {"http_error", "connection_error"} ->
            Failed("error", "connection_error", "medium")
      [] end = "response" ->
            IF valid THEN Outcome("ok", "fresh", "high", TRUE, r)
                     ELSE Failed("unknown", "invalid_response", "low")

(* What the manager substitutes for a probe that raised.                   *)
ErrorOutcome == Failed("unknown", "error", "low")

-----------------------------------------------------------------------------
(* The outcomes each of the five probes can return.                        *)

PingOutcomes ==
    {ProbePing(e, l, r) : e \in Exit, l \in Loss, r \in Reading}

GatewayOutcomes ==
    {ProbeGateway(t, e, l, r) : t \in Route, e \in Exit, l \in Loss, r \in Reading}

DnsOutcomes ==
    {ProbeDns(e, b, r) : e \in Exit, b \in BOOLEAN, r \in Reading}

HttpsOutcomes ==
    {ProbeHttps("response", 200)}
        \cup {ProbeHttps("http_error", c) : c \in Code \ {200}}
        \cup {ProbeHttps(e, 200) : e \in {"timeout", "connection_error"}}

PublicIpOutcomes ==
    {ProbePublicIp(e, b, r) : e \in RequestEnd, b \in BOOLEAN, r \in Reading}

OutcomesOf(kind) ==
    CASE kind = "network_gateway"   -> GatewayOutcomes
      [] kind = "network_internet"  -> PingOutcomes
      [] kind = "network_dns"       -> DnsOutcomes
      [] kind = "network_https"     -> HttpsOutcomes
      [] kind = "network_public_ip" -> PublicIpOutcomes
=============================================================================
