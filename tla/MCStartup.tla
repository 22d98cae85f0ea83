----------------------------- MODULE MCStartup -----------------------------
(***************************************************************************)
(* Startup in every environment with at most one value that is not good:   *)
(* in the .env of all four, or in the address that docker-compose.yml sets *)
(* for the analyser or the tg-bot alone (docker-compose.yml:61-63, 91-92). *)
(* The gateways wait for none of the others and none waits for them, so    *)
(* each is deployed alone.                                                 *)
(***************************************************************************)
EXTENDS Startup, TLC

\* The values a variable may have: a text has no zero, but a URL of slashes is
\* an empty one.
ValuesOf(k) ==
  {Unset, Junk} \cup
    (IF k \in Numbers \cup Lists \cup {"GRINEX_API_BASE_URL"} THEN {Zero} ELSE {})

\* Of the numbers every process parses, one for each loader stands for all.
MCNames == Names \ {"READ_HEADER_TIMEOUT_MS", "ARBITRAGE_MIN_DIFF_GLOBAL",
                    "ARBITRAGE_MAX_NOTIONAL_GLOBAL", "ARBITRAGE_DEDUP_TTL_SECONDS",
                    "RAPIRA_REFRESH_MARGIN_MIN", "REQUEST_TIMEOUT_MS"}

\* With POSTGRES_DSN there is no look at the parts.
FromParts == [k \in {"POSTGRES_DSN"} |-> Unset]

Shared ==
  {<<>>, FromParts}
    \cup UNION {{[x \in {k} |-> v] : v \in ValuesOf(k)} : k \in MCNames \ DSNParts}
    \cup UNION {{[x \in {k} |-> v] @@ FromParts : v \in ValuesOf(k)} : k \in DSNParts}

Own ==
  {[x \in {k} |-> v] : k \in {"TGBOT_GRPC_ADDR", "ANALYSER_GRPC_ADDR"},
                       v \in {Unset, Junk}}

MCEnvs ==
  {[p \in Processes |-> e] : e \in Shared}
    \cup {[p \in Processes |-> IF p = q THEN e ELSE <<>>] :
             q \in {"analyser", "tg-bot"}, e \in Own}

MCDeployments == {{"analyser", "tg-bot"}, {"rapira-gw"}, {"grinex-gw"}}
=============================================================================
