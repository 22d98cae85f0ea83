------------------------------- MODULE Config -------------------------------
(***************************************************************************)
(* What a process makes of its environment variables.  All four processes  *)
(* get the same .env, but for the addresses docker-compose.yml sets for    *)
(* one of them, and each parses it whole.  Of a value the model keeps what *)
(* config.go tells apart: it is missing or blank; it does not parse, or    *)
(* what it names is of no use; it is a zero, or a list with nothing in it; *)
(* or it is good.  env maps the variables that are not good to what they   *)
(* are.                                                                    *)
(***************************************************************************)
Unset == "unset"
Junk == "junk"
Zero == "zero"
Good == "good"

Processes == {"analyser", "tg-bot", "rapira-gw", "grinex-gw"}

HTTPPort(service) ==
  CASE service = "analyser" -> "ANALYSER_HTTP_PORT"
    [] service = "rapira-gw" -> "RAPIRA_GW_HTTP_PORT"
    [] service = "grinex-gw" -> "GRINEX_GW_HTTP_PORT"
    [] service = "tg-bot" -> "TGBOT_HTTP_PORT"

DSNParts == {"DB_HOST", "DB_PORT", "DB_USER", "DB_NAME"}

\* Numbers that every process parses, whether it uses them or not.
arbitrageNumbers ==
  {"ARBITRAGE_MIN_DIFF_GLOBAL", "ARBITRAGE_MAX_NOTIONAL_GLOBAL",
   "ARBITRAGE_DEDUP_TTL_SECONDS", "ORDERBOOK_DEPTH"}
rapiraNumbers == {"RAPIRA_POLL_INTERVAL_MS", "RAPIRA_REFRESH_MARGIN_MIN"}
grinexNumbers == {"GRINEX_POLL_INTERVAL_MS"}
timeouts == {"REQUEST_TIMEOUT_MS", "READ_HEADER_TIMEOUT_MS"}

Numbers == {HTTPPort(p) : p \in Processes} \cup timeouts \cup {"REDIS_DB"}
             \cup arbitrageNumbers \cup rapiraNumbers \cup grinexNumbers
Lists == {"RAPIRA_SYMBOLS", "GRINEX_SYMBOLS"}
Texts == {"REDIS_ADDR", "NATS_URL", "POSTGRES_DSN", "TG_BOT_TOKEN",
          "TGBOT_GRPC_ADDR", "ANALYSER_GRPC_ADDR", "RAPIRA_API_BASE_URL",
          "RAPIRA_API_KEY_KID", "RAPIRA_JWT_PRIVATE_KEY",
          "GRINEX_API_BASE_URL"} \cup DSNParts
Names == Numbers \cup Lists \cup Texts

Value(env, key) == IF key \in DOMAIN env THEN env[key] ELSE Good

\* REDIS_DB is parsed only beside an address.
Parsed(service, env) ==
  {HTTPPort(service)} \cup timeouts
    \cup {k \in {"REDIS_DB"} : Value(env, "REDIS_ADDR") # Unset}
    \cup arbitrageNumbers \cup rapiraNumbers \cup grinexNumbers

\* getEnv, os.Getenv: a blank value is none.
Present(env, key) == Value(env, key) # Unset

\* Ports default to 0, the depth of a book to 5.
HasPort(service, env) == Value(env, HTTPPort(service)) \notin {Unset, Zero}
HasDepth(env) == Value(env, "ORDERBOOK_DEPTH") # Zero

HasDSN(env) ==
  Present(env, "POSTGRES_DSN") \/ \A k \in DSNParts : Present(env, k)

HasSymbols(env, key) == Value(env, key) \notin {Unset, Zero}

\* A variant without the loop over the symbols of grinex-gw.
validateAnySymbol(service, env) ==
  /\ Present(env, "REDIS_ADDR")
  /\ HasPort(service, env)
  /\ service = "analyser" =>
       HasDSN(env) /\ HasDepth(env) /\ Present(env, "TGBOT_GRPC_ADDR")
  /\ service = "rapira-gw" =>
       /\ \A k \in {"RAPIRA_API_BASE_URL", "RAPIRA_API_KEY_KID",
                    "RAPIRA_JWT_PRIVATE_KEY"} : Present(env, k)
       /\ HasSymbols(env, "RAPIRA_SYMBOLS")
  /\ service = "tg-bot" =>
       Present(env, "TG_BOT_TOKEN") /\ Present(env, "ANALYSER_GRPC_ADDR")
  /\ service = "grinex-gw" =>
       /\ Value(env, "GRINEX_API_BASE_URL") # Zero
       /\ HasSymbols(env, "GRINEX_SYMBOLS")

\* GRINEX_API_BASE_URL has a default, and is empty when it is only slashes;
\* usdta7a5 is the one symbol of grinex-gw.
validateConfig(service, env) ==
  /\ Present(env, "REDIS_ADDR")
  /\ HasPort(service, env)
  /\ service = "analyser" =>
       HasDSN(env) /\ HasDepth(env) /\ Present(env, "TGBOT_GRPC_ADDR")
  /\ service = "rapira-gw" =>
       /\ \A k \in {"RAPIRA_API_BASE_URL", "RAPIRA_API_KEY_KID",
                    "RAPIRA_JWT_PRIVATE_KEY"} : Present(env, k)
       /\ HasSymbols(env, "RAPIRA_SYMBOLS")
  /\ service = "tg-bot" =>
       Present(env, "TG_BOT_TOKEN") /\ Present(env, "ANALYSER_GRPC_ADDR")
  /\ service = "grinex-gw" =>
       /\ Value(env, "GRINEX_API_BASE_URL") # Zero
       /\ HasSymbols(env, "GRINEX_SYMBOLS")
       /\ Value(env, "GRINEX_SYMBOLS") # Junk

\* MustLoad panics when this is false.  getIntEnv and getFloatEnv take a default
\* for what is missing; only a value that is there can fail to parse.
Load(service, env) ==
  /\ \A k \in DOMAIN env : k \in Parsed(service, env) => env[k] # Junk
  /\ validateConfig(service, env)
=============================================================================
