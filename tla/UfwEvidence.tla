----------------------------- MODULE UfwEvidence -----------------------------
(***************************************************************************)
(* The result of the privileged UFW probe, as its writer makes it          *)
(* (src/bhola_ufw_probe.py) and as its reader validates it                 *)
(* (src/bhola_services.py).  The two programs are installed apart and      *)
(* share no code: each has its own copy of the enumerations.               *)
(***************************************************************************)

Config == {"enabled", "disabled", "unknown"}

Evidence(runtime, verified, detail) ==
    [runtime |-> runtime, verified |-> verified, detail |-> detail]

-----------------------------------------------------------------------------
(* The writer.                                                             *)

Classified ==
    {Evidence("active", TRUE, "verified_runtime_active"),
     Evidence("inactive", TRUE, "verified_runtime_inactive"),
     Evidence("unconfirmed", FALSE, "orphan_ufw_runtime"),
     Evidence("unconfirmed", FALSE, "inconsistent_ruleset")}

(* How the run of nft can end without a ruleset to classify.               *)
Failure == {"program_missing", "timeout", "command_failed", "empty_output",
            "oversized_output", "invalid_json"}

ProbeEvidence == Classified \cup {Evidence("error", FALSE, f) : f \in Failure}

RuntimeValues == {"active", "inactive", "unconfirmed", "error"}
DetailValues == {"verified_runtime_active", "verified_runtime_inactive",
                 "orphan_ufw_runtime", "inconsistent_ruleset", "command_failed",
                 "timeout", "invalid_json", "empty_output", "oversized_output",
                 "program_missing"}

(* build_state raises a ValueError for anything else.                      *)
Buildable(e) ==
    /\ e.runtime \in RuntimeValues /\ e.detail \in DetailValues
    /\ e.verified <=> e.runtime \in {"active", "inactive"}

-----------------------------------------------------------------------------
(* The reader.                                                             *)

ExpectedDetails ==
    [active |-> {"verified_runtime_active"},
     inactive |-> {"verified_runtime_inactive"},
     unconfirmed |-> {"orphan_ufw_runtime", "inconsistent_ruleset"},
     error |-> {"command_failed", "timeout", "invalid_json", "empty_output",
                "oversized_output", "program_missing"}]

Acceptable(e) ==
    /\ e.runtime \in DOMAIN ExpectedDetails
    /\ e.verified <=> e.runtime \in {"active", "inactive"}
    /\ e.detail \in ExpectedDetails[e.runtime]

(* The card of an enabled firewall for an accepted, fresh state.           *)
CardOf(e) ==
    CASE e.runtime = "active"   -> [status |-> "ok", detail |-> "verified_runtime_active"]
      [] e.runtime = "inactive" -> [status |-> "degraded", detail |-> "verified_runtime_inactive"]
      [] e.runtime = "error"    -> [status |-> "unknown", detail |-> "probe_error"]
      [] OTHER                  -> [status |-> "unknown", detail |-> "probe_unconfirmed"]
=============================================================================
