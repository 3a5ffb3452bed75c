------------------------------ MODULE Startup ------------------------------
(***************************************************************************)
(* A process of the bot from its settings to its end: the two checks that  *)
(* refuse to start it, the database, the live executor's SDK, and what the *)
(* settings leave to the operator. The settings are reduced to the answers *)
(* the checks look for. Between two processes the settings may change.     *)
(***************************************************************************)

AllSettings == [live_code_enabled : BOOLEAN, enable_live_execution : BOOLEAN,
                keys : BOOLEAN,            \* hl_account_address and hl_secret_key are given
                default_token : BOOLEAN,   \* api_token = "change-me-please"; any other is one to send
                public : BOOLEAN,          \* api_host in ("0.0.0.0", "::")
                require_protected_exits : BOOLEAN]

CONSTANT Settings   \* what the environment may say

ASSUME StartupAssumption == Settings \subseteq AllSettings

VARIABLES
    process,
    CFG,
    capable      \* LiveExecutor: the SDK was initialized

startupVars == <<process, CFG, capable>>

StartupTypeOK ==
    /\ process \in {"down", "starting", "up", "stopping"}
    /\ CFG \in AllSettings
    /\ capable \in BOOLEAN

StartupInit == process = "down" /\ CFG \in Settings /\ capable = FALSE

----------------------------------------------------------------------------
\* validate_config finds no error.
ValidateConfig(s) ==
    /\ s.enable_live_execution => s.live_code_enabled
    /\ s.live_code_enabled /\ s.enable_live_execution => s.keys /\ ~s.default_token

\* _startup_safety_checks
StartupSafetyChecks(s) ==
    /\ ~(s.public /\ s.default_token)
    /\ ~(s.live_code_enabled /\ s.enable_live_execution /\ s.default_token)

\* Faulty variant: the executor does not look at enable_live_execution.
InitializesSdkDisabled(s) == s.live_code_enabled /\ s.keys

\* LiveExecutor.__init__ gets as far as the SDK.
InitializesSdk(s) == s.live_code_enabled /\ s.enable_live_execution /\ s.keys

\* A start that is refused ends before it touches the database.
Start ==
    /\ process = "down"
    /\ CFG' \in {s \in Settings : ValidateConfig(s) /\ StartupSafetyChecks(s)}
    /\ process' = "starting"
    /\ UNCHANGED capable

\* The database is ready; the Orchestrator and the API exist. The SDK may fail to initialize.
ComesUp ==
    /\ process = "starting"
    /\ process' = "up"
    /\ capable' \in IF InitializesSdk(CFG) THEN BOOLEAN ELSE {FALSE}
    /\ UNCHANGED CFG

\* A signal, or the end of the server: the loops take no new round, while what is under way and
\* the requests go on for a while.
ShutDown ==
    /\ process = "up"
    /\ process' = "stopping"
    /\ UNCHANGED <<CFG, capable>>

Ends ==
    /\ process # "down"
    /\ process' = "down" /\ capable' = FALSE
    /\ UNCHANGED CFG

Serving == process \in {"up", "stopping"}

\* _check_auth: with the default token no control endpoint answers.
Authorized == Serving /\ ~CFG.default_token

----------------------------------------------------------------------------
\* Who can trade live can be stopped: a process that has the SDK has its controls.
CapableIsControlled == capable => Authorized

----------------------------------------------------------------------------
(* A statement of the documents that the code does not meet.               *)

\* main.py's head comment: live code enabled without keys is refused. It is refused when
\* ENABLE_LIVE is set as well.
NoKeysRefused == process # "down" /\ CFG.live_code_enabled => CFG.keys

=============================================================================
